---- MODULE Spec2Model ----
(***************************************************************************)
(* A model of the qualtrics_sdk client core: the display-logic condition   *)
(* and expression builder (core/display_logic.py), the survey-flow         *)
(* splicer (core/embedded_data.py, core/randomization.py) and the response *)
(* export and deletion calls (core/responses.py).                          *)
(*                                                                         *)
(* JSON objects are records; an absent key is an absent record field, so   *)
(* Python's  d.get(k)  /  k in d  become tests on DOMAIN.  Identifiers     *)
(* that the code parses or formats (FlowID, block id, survey id) are       *)
(* sequences of one-character strings; all other strings are atomic.       *)
(* The remote store keeps one survey flow and one question; a write (PUT)  *)
(* that is answered 200 replaces the stored record by the body sent.       *)
(* The store also keeps the survey's responses; a running export and the   *)
(* callers that share one flow keep their local variables in the state.    *)
(***************************************************************************)
EXTENDS Integers, Sequences, FiniteSets, TLC

VARIABLES flow, question, call, ncalls, responses, export, callers

vars == <<flow, question, call, ncalls, responses, export, callers>>

-----------------------------------------------------------------------------
(* Text: Python's \d, int() and str() on non-negative integers.            *)

DigitChars == <<"0", "1", "2", "3", "4", "5", "6", "7", "8", "9">>

IsDigit(c) == \E i \in DOMAIN DigitChars : DigitChars[i] = c

DigitVal(c) == (CHOOSE i \in DOMAIN DigitChars : DigitChars[i] = c) - 1

Max(a, b) == IF a >= b THEN a ELSE b

Min(a, b) == IF a <= b THEN a ELSE b

\* s[:n]
Take(s, n) == SubSeq(s, 1, Min(n, Len(s)))

RECURSIVE ParseInt(_)
\* int(ds) for a non-empty run of decimal digits
ParseInt(ds) ==
    IF Len(ds) = 0 THEN 0
    ELSE ParseInt(SubSeq(ds, 1, Len(ds) - 1)) * 10 + DigitVal(ds[Len(ds)])

RECURSIVE FormatInt(_)
\* str(n) for n >= 0
FormatInt(n) ==
    IF n < 10 THEN <<DigitChars[n + 1]>>
    ELSE FormatInt(n \div 10) \o <<DigitChars[(n % 10) + 1]>>

RECURSIVE DigitRun(_, _)
\* the greedy \d* run of s that starts at index i
DigitRun(s, i) ==
    IF i <= Len(s) /\ IsDigit(s[i]) THEN <<s[i]>> \o DigitRun(s, i + 1) ELSE <<>>

FLPrefix == <<"F", "L", "_">>

\* re.match(r'FL_(\d+)', flow_id): anchored at the start only; group(1), or
\* the empty run when there is no match
MatchFL(flow_id) ==
    IF Len(flow_id) > Len(FLPrefix) /\ Take(flow_id, Len(FLPrefix)) = FLPrefix
    THEN DigitRun(flow_id, Len(FLPrefix) + 1)
    ELSE <<>>

\* f"FL_{n}"
FL(n) == FLPrefix \o FormatInt(n)

-----------------------------------------------------------------------------
(* Flow helpers of EmbeddedDataMixin.                                      *)

\* element.get('FlowID', '')
FlowIdOf(element) == IF "FlowID" \in DOMAIN element THEN element.FlowID ELSE <<>>

\* one iteration of the id scan: max_id after looking at one FlowID
ScanId(flow_id, max_id) ==
    IF MatchFL(flow_id) # <<>> THEN Max(max_id, ParseInt(MatchFL(flow_id)))
    ELSE max_id

RECURSIVE ScanNested(_, _, _)
\* the inner loop over element['Flow'], from index j
ScanNested(nested, j, max_id) ==
    IF j > Len(nested) THEN max_id
    ELSE ScanNested(nested, j + 1, ScanId(FlowIdOf(nested[j]), max_id))

RECURSIVE ScanFlow_TopOnly(_, _, _)
\* the scan without its inner loop: nested FlowIDs are not looked at
ScanFlow_TopOnly(flow_list, i, max_id) ==
    IF i > Len(flow_list) THEN max_id
    ELSE ScanFlow_TopOnly(flow_list, i + 1, ScanId(FlowIdOf(flow_list[i]), max_id))

RECURSIVE ScanFlow(_, _, _)
\* the outer loop over flow_list, from index i
ScanFlow(flow_list, i, max_id) ==
    IF i > Len(flow_list) THEN max_id
    ELSE LET element == flow_list[i]
             own == ScanId(FlowIdOf(element), max_id)
             all == IF "Flow" \in DOMAIN element
                    THEN ScanNested(element.Flow, 1, own)
                    ELSE own
         IN  ScanFlow(flow_list, i + 1, all)

_get_next_flow_id(flow_list) == FL(ScanFlow(flow_list, 1, 0) + 1)

RECURSIVE _count_flow_elements(_)
_count_flow_elements(flow_list) ==
    IF Len(flow_list) = 0 THEN 0
    ELSE LET element == flow_list[1]
         IN  1 + (IF "Flow" \in DOMAIN element
                  THEN _count_flow_elements(element.Flow) ELSE 0)
               + _count_flow_elements(Tail(flow_list))

-----------------------------------------------------------------------------
(* Python values.                                                          *)

\* Optional[...]: None is the empty sequence, a value v is <<v>>
None == <<>>

Some(v) == <<v>>

\* dict.update / d[k] = v on records
Update(f, item) ==
    [k \in (DOMAIN f) \cup (DOMAIN item) |-> IF k \in DOMAIN item THEN item[k] ELSE f[k]]

\* d.get(k, default)
Get(d, k, default) == IF k \in DOMAIN d THEN d[k] ELSE default

\* list.insert(idx, x), idx counted from 0
InsertAt(list, idx, x) ==
    SubSeq(list, 1, Min(idx, Len(list))) \o <<x>> \o SubSeq(list, Min(idx, Len(list)) + 1, Len(list))

\* a resource the remote store does not hold: every request for it is
\* answered with a non-200 status
Missing == [missing |-> TRUE]

IsMissing(r) == "missing" \in DOMAIN r

-----------------------------------------------------------------------------
(* The call record: the last call, its outcome and the HTTP requests it    *)
(* issued, in order.  before is the remote record when the call began.     *)

Request(method, resource) == [method |-> method, resource |-> resource]

NoCall ==
    [op |-> "none", args |-> [none |-> TRUE], result |-> "none", ret |-> None,
     reqs |-> <<>>, sent |-> <<>>, before |-> Missing]

\* a call that raised: result names the error, sent holds no body that took effect
Raised(op, args, error, reqs, sent, before) ==
    [op |-> op, args |-> args, result |-> error, ret |-> None,
     reqs |-> reqs, sent |-> sent, before |-> before]

Returned(op, args, ret, reqs, sent, before) ==
    [op |-> op, args |-> args, result |-> "ok", ret |-> Some(ret),
     reqs |-> reqs, sent |-> sent, before |-> before]

\* how the remote store answers the requests of one call
HttpFaults == {"none", "read", "write"}

-----------------------------------------------------------------------------
(* EmbeddedDataMixin: the embedded-data upsert and delete.                 *)

valid_types == {"text", "number", "date"}

valid_positions == {"start", "end"}

\* field_item / item: the embedded-data field object
FieldItem(field_name, value) ==
    LET base == [Description |-> field_name, Type |-> "Custom", Field |-> field_name,
                 VariableType |-> "String", DataVisibility |-> <<>>]
    IN  IF value # None THEN Update(base, [Value |-> value[1]]) ELSE base

\* f.get('Field') == field_name
HasField(f, field_name) == "Field" \in DOMAIN f /\ f.Field = field_name

\* any(f.get('Field') == field_name for f in existing_fields)
FieldExists(existing_fields, field_name) ==
    \E i \in DOMAIN existing_fields : HasField(existing_fields[i], field_name)

\* an upsert that appends the item whether or not the name is held
UpsertField_Append(existing_fields, item) == Append(existing_fields, item)

\* the first matching entry is updated in place (f.update(item); break),
\* otherwise the item is appended
UpsertField(existing_fields, item) ==
    IF FieldExists(existing_fields, item.Field)
    THEN LET i == CHOOSE j \in DOMAIN existing_fields :
                      /\ HasField(existing_fields[j], item.Field)
                      /\ \A k \in 1..(j - 1) : ~HasField(existing_fields[k], item.Field)
         IN  [existing_fields EXCEPT ![i] = Update(@, item)]
    ELSE Append(existing_fields, item)

RECURSIVE UpsertFields(_, _)
\* for item in embedded_data_items: upsert
UpsertFields(existing_fields, items) ==
    IF Len(items) = 0 THEN existing_fields
    ELSE UpsertFields(UpsertField(existing_fields, Head(items)), Tail(items))

\* element.get('Type') == t
IsType(element, t) == "Type" \in DOMAIN element /\ element.Type = t

\* flow_list[i]['EmbeddedData'] = upserted fields (i counted from 1)
UpsertIntoGroup(flow_list, i, items) ==
    [flow_list EXCEPT ![i] =
        Update(@, [EmbeddedData |-> UpsertFields(Get(@, "EmbeddedData", <<>>), items)])]

NewGroup(flow_list, items) ==
    [Type |-> "EmbeddedData", FlowID |-> _get_next_flow_id(flow_list), EmbeddedData |-> items]

\* position == "start"
SpliceStart(flow_list, items) ==
    IF Len(flow_list) > 0 /\ IsType(flow_list[1], "EmbeddedData")
    THEN UpsertIntoGroup(flow_list, 1, items)
    ELSE InsertAt(flow_list, 0, NewGroup(flow_list, items))

\* an end position that is the front of the list
EndIndex_Front(flow_list) == 0

\* end_idx: the 0-based index of the first EndSurvey, or len(flow_list)
EndIndex(flow_list) ==
    IF \E i \in DOMAIN flow_list : IsType(flow_list[i], "EndSurvey")
    THEN (CHOOSE i \in DOMAIN flow_list :
              /\ IsType(flow_list[i], "EndSurvey")
              /\ \A k \in 1..(i - 1) : ~IsType(flow_list[k], "EndSurvey")) - 1
    ELSE Len(flow_list)

\* the end splice that ignores EndSurvey and puts a new group last
SpliceEnd_Append(flow_list, items, min_idx) ==
    IF Len(flow_list) > min_idx /\ IsType(flow_list[Len(flow_list)], "EmbeddedData")
    THEN UpsertIntoGroup(flow_list, Len(flow_list), items)
    ELSE Append(flow_list, NewGroup(flow_list, items))

\* position == "end"; reuse holds when end_idx is past min_idx, the least
\* index at which the preceding group is taken for the end group
SpliceEnd(flow_list, items, min_idx) ==
    LET end_idx == EndIndex(flow_list)
    IN  IF end_idx > min_idx /\ IsType(flow_list[end_idx], "EmbeddedData")
        THEN UpsertIntoGroup(flow_list, end_idx, items)
        ELSE InsertAt(flow_list, end_idx, NewGroup(flow_list, items))

\* set_embedded_data:  if end_idx > 0 and ...
SingleEndMin == 0

\* set_embedded_data_fields:  if end_idx > 1 and ...   (not the start block)
BulkEndMin == 1

\* current_flow['Flow'] = flow_list; Properties.Count updated
WithFlow(current_flow, flow_list) ==
    Update(current_flow,
           [Flow |-> flow_list,
            Properties |-> Update(Get(current_flow, "Properties", <<>>),
                                  [Count |-> _count_flow_elements(flow_list)])])

FlowGet == Request("GET", "flow")

FlowPut == Request("PUT", "flow")

\* the read-modify-write tail shared by the flow operations: the body is
\* PUT and the call returns ret, or the write is refused
\* a write that takes any answer for success
WriteFlow_Lenient(op, args, cur, body, ret, http) ==
    [call |-> Returned(op, args, ret, <<FlowGet, FlowPut>>, <<body>>, cur),
     remote |-> IF http = "write" THEN cur ELSE body]

WriteFlow(op, args, cur, body, ret, http) ==
    IF http = "write"
    THEN [call |-> Raised(op, args, "RemoteOperationFailed", <<FlowGet, FlowPut>>, <<body>>, cur),
          remote |-> cur]
    ELSE [call |-> Returned(op, args, ret, <<FlowGet, FlowPut>>, <<body>>, cur),
          remote |-> body]

\* a call that raised before any write
Abort(op, args, error, reqs, cur) ==
    [call |-> Raised(op, args, error, reqs, <<>>, cur), remote |-> cur]

set_embedded_data(cur, args, http) ==
    LET op == "set_embedded_data" IN
    IF args.field_type \notin valid_types THEN Abort(op, args, "InvalidFieldType", <<>>, cur)
    ELSE IF args.position \notin valid_positions THEN Abort(op, args, "InvalidPosition", <<>>, cur)
    ELSE IF http = "read"
         THEN Abort(op, args, "RemoteOperationFailed", <<FlowGet>>, cur)
    ELSE LET flow_list == Get(cur, "Flow", <<>>)
             items == <<FieldItem(args.field_name, args.value)>>
             new_list == IF args.position = "start"
                         THEN SpliceStart(flow_list, items)
                         ELSE SpliceEnd(flow_list, items, SingleEndMin)
         IN  WriteFlow(op, args, cur, WithFlow(cur, new_list),
                       [field_name |-> args.field_name, field_type |-> args.field_type,
                        value |-> args.value, position |-> args.position, success |-> TRUE],
                       http)

RECURSIVE FirstBadType(_)
\* the loop over fields.items(): the 1-based index of the first entry whose
\* type is not valid, or 0
FirstBadType(fields) ==
    IF Len(fields) = 0 THEN 0
    ELSE IF Head(fields).type \notin valid_types THEN 1
    ELSE LET rest == FirstBadType(Tail(fields)) IN IF rest = 0 THEN 0 ELSE rest + 1

\* embedded_data_items, in the order of the dict
FieldItems(fields) == [i \in DOMAIN fields |-> FieldItem(fields[i].name, fields[i].value)]

\* set_embedded_data_fields that writes the fields before the first one of an
\* invalid type and raises after that write
set_embedded_data_fields_LateCheck(cur, args, http) ==
    LET op == "set_embedded_data_fields"
        bad == FirstBadType(args.fields)
        good == IF bad = 0 THEN args.fields ELSE SubSeq(args.fields, 1, bad - 1)
    IN
    IF args.position \notin valid_positions THEN Abort(op, args, "InvalidPosition", <<>>, cur)
    ELSE IF http = "read"
         THEN Abort(op, args, "RemoteOperationFailed", <<FlowGet>>, cur)
    ELSE LET flow_list == Get(cur, "Flow", <<>>)
             new_list == IF args.position = "start"
                         THEN SpliceStart(flow_list, FieldItems(good))
                         ELSE SpliceEnd(flow_list, FieldItems(good), BulkEndMin)
             done == WriteFlow(op, args, cur, WithFlow(cur, new_list),
                               [fields |-> [i \in DOMAIN args.fields |-> args.fields[i].name],
                                count |-> Len(args.fields), position |-> args.position,
                                success |-> TRUE],
                               http)
         IN  IF bad # 0 /\ http = "none"
             THEN [call |-> Raised(op, args, "InvalidFieldType", done.call.reqs,
                                   done.call.sent, cur),
                   remote |-> done.remote]
             ELSE done

\* fields is the dict as the sequence of its entries [name, type, value], names distinct
set_embedded_data_fields(cur, args, http) ==
    LET op == "set_embedded_data_fields" IN
    IF args.position \notin valid_positions THEN Abort(op, args, "InvalidPosition", <<>>, cur)
    ELSE IF http = "read"
         THEN Abort(op, args, "RemoteOperationFailed", <<FlowGet>>, cur)
    ELSE IF FirstBadType(args.fields) # 0
         THEN Abort(op, args, "InvalidFieldType", <<FlowGet>>, cur)
    ELSE LET flow_list == Get(cur, "Flow", <<>>)
             items == FieldItems(args.fields)
             new_list == IF args.position = "start"
                         THEN SpliceStart(flow_list, items)
                         ELSE SpliceEnd(flow_list, items, BulkEndMin)
         IN  WriteFlow(op, args, cur, WithFlow(cur, new_list),
                       [fields |-> [i \in DOMAIN args.fields |-> args.fields[i].name],
                        count |-> Len(args.fields), position |-> args.position,
                        success |-> TRUE],
                       http)

\* a filter that empties the group
WithoutField_All(existing_fields, field_name) == <<>>

\* [f for f in existing_fields if f.get('Field') != field_name]
WithoutField(existing_fields, field_name) ==
    SelectSeq(existing_fields, LAMBDA f : ~HasField(f, field_name))

\* the delete loop that stops at the first group, whatever it holds
DeleteTarget_AnyGroup(flow_list, field_name) ==
    IF \E i \in DOMAIN flow_list : IsType(flow_list[i], "EmbeddedData")
    THEN CHOOSE i \in DOMAIN flow_list :
            /\ IsType(flow_list[i], "EmbeddedData")
            /\ \A k \in 1..(i - 1) : ~IsType(flow_list[k], "EmbeddedData")
    ELSE 0

\* the group the delete loop stops at: the first EmbeddedData element that
\* holds a field of that name (1-based), or 0 when field_found stays False
DeleteTarget(flow_list, field_name) ==
    LET holds(i) == /\ IsType(flow_list[i], "EmbeddedData")
                    /\ FieldExists(Get(flow_list[i], "EmbeddedData", <<>>), field_name)
    IN  IF \E i \in DOMAIN flow_list : holds(i)
        THEN CHOOSE i \in DOMAIN flow_list : holds(i) /\ \A k \in 1..(i - 1) : ~holds(k)
        ELSE 0

delete_embedded_data(cur, args, http) ==
    LET op == "delete_embedded_data" IN
    IF http = "read"
    THEN Abort(op, args, "RemoteOperationFailed", <<FlowGet>>, cur)
    ELSE LET flow_list == Get(cur, "Flow", <<>>)
             i == DeleteTarget(flow_list, args.field_name)
         IN  IF i = 0 THEN Abort(op, args, "FieldNotFound", <<FlowGet>>, cur)
             ELSE WriteFlow(op, args, cur,
                     WithFlow(cur, [flow_list EXCEPT ![i] =
                         Update(@, [EmbeddedData |->
                             WithoutField(Get(@, "EmbeddedData", <<>>), args.field_name)])]),
                     TRUE, http)

-----------------------------------------------------------------------------
(* RandomizationMixin.randomize_blocks.                                    *)

SurveyId == <<"S", "V", "_", "1">>

\* survey_id[:8]
SurveyIdPrefixLen == 8

SurveyGet == Request("GET", "survey")

\* randomizer_flow
RandomizerFlow(block_ids) ==
    [i \in DOMAIN block_ids |->
        [Type |-> "Block", ID |-> block_ids[i], FlowID |-> FLPrefix \o block_ids[i]]]

\* subset_count if subset_count else len(block_ids)
SubSetOf(subset_count, block_ids) ==
    IF subset_count # None /\ subset_count[1] # 0 THEN subset_count[1] ELSE Len(block_ids)

Randomizer(args) ==
    LET base == [Type |-> "BlockRandomizer",
                 FlowID |-> FLPrefix \o <<"R", "a", "n", "d", "o", "m", "i", "z", "e", "r", "_">>
                              \o Take(SurveyId, SurveyIdPrefixLen),
                 SubSet |-> SubSetOf(args.subset_count, args.block_ids),
                 EvenPresentation |-> args.evenly_present,
                 Flow |-> RandomizerFlow(args.block_ids)]
    IN  IF args.randomization_type = "balanced"
        THEN Update(base, [Randomization |-> "Balanced"]) ELSE base

\* element.get('Type') == 'Block' and element.get('ID') in blocks_to_randomize
Listed(element, block_ids) ==
    /\ IsType(element, "Block")
    /\ "ID" \in DOMAIN element
    /\ \E i \in DOMAIN block_ids : block_ids[i] = element.ID

RECURSIVE WrapLoop(_, _, _, _)
\* a loop that keeps the listed blocks after the first
WrapLoop_KeepLater(old_flow, block_ids, randomizer, added) ==
    IF Len(old_flow) = 0 THEN <<>>
    ELSE LET element == Head(old_flow) IN
         IF Listed(element, block_ids) /\ ~added
         THEN <<randomizer>> \o WrapLoop(Tail(old_flow), block_ids, randomizer, TRUE)
         ELSE <<element>> \o WrapLoop(Tail(old_flow), block_ids, randomizer, added)

\* the loop building new_flow; added is randomizer_added
WrapLoop(old_flow, block_ids, randomizer, added) ==
    IF Len(old_flow) = 0 THEN <<>>
    ELSE LET element == Head(old_flow) IN
         IF Listed(element, block_ids)
         THEN (IF added THEN <<>> ELSE <<randomizer>>)
                  \o WrapLoop(Tail(old_flow), block_ids, randomizer, TRUE)
         ELSE <<element>> \o WrapLoop(Tail(old_flow), block_ids, randomizer, added)

NewFlow(old_flow, block_ids, randomizer) ==
    IF \E i \in DOMAIN old_flow : Listed(old_flow[i], block_ids)
    THEN WrapLoop(old_flow, block_ids, randomizer, FALSE)
    ELSE InsertAt(old_flow, 0, randomizer)

\* the validation with > in place of >=
SubsetTooLarge_Strict(subset_count, block_ids) ==
    subset_count # None /\ subset_count[1] > Len(block_ids)

\* the validation at the head of randomize_blocks
SubsetTooLarge(subset_count, block_ids) ==
    subset_count # None /\ subset_count[1] >= Len(block_ids)

\* get_survey and what follows it: the survey's SurveyFlow is the stored
\* flow; the body PUT to /flow holds only Flow and Properties
WrapBlocks(op, cur, args, http) ==
    IF http = "read"
    THEN Abort(op, args, "RemoteOperationFailed", <<SurveyGet>>, cur)
    ELSE LET new_flow == NewFlow(Get(cur, "Flow", <<>>), args.block_ids, Randomizer(args))
             body == [Flow |-> new_flow,
                      Properties |-> Get(cur, "Properties", [Count |-> Len(new_flow)])]
         IN  IF http = "write"
             THEN [call |-> Raised(op, args, "RemoteOperationFailed",
                                   <<SurveyGet, FlowPut>>, <<body>>, cur),
                   remote |-> cur]
             ELSE [call |-> Returned(op, args, body, <<SurveyGet, FlowPut>>, <<body>>, cur),
                   remote |-> body]

\* randomize_blocks with the subset check moved below get_survey
randomize_blocks_LateCheck(cur, args, http) ==
    IF http # "read" /\ SubsetTooLarge(args.subset_count, args.block_ids)
    THEN Abort("randomize_blocks", args, "InvalidSubsetCount", <<SurveyGet>>, cur)
    ELSE WrapBlocks("randomize_blocks", cur, args, http)

randomize_blocks(cur, args, http) ==
    IF SubsetTooLarge(args.subset_count, args.block_ids)
    THEN Abort("randomize_blocks", args, "InvalidSubsetCount", <<>>, cur)
    ELSE WrapBlocks("randomize_blocks", cur, args, http)

-----------------------------------------------------------------------------
(* DisplayLogicMixin: conditions, the display-logic writes and skip logic. *)
(* A string built from parts (an f-string, a locator) is the sequence of   *)
(* its parts; a comparison value is [int |-> n] or [str |-> text].         *)

\* JSON null in a slot that otherwise holds a string
PyNone == "None"

OPERATORS ==
    {"Selected", "NotSelected", "Displayed", "NotDisplayed", "EqualTo", "NotEqualTo",
     "GreaterThan", "LessThan", "GreaterOrEqual", "LessOrEqual", "Contains",
     "DoesNotContain", "MatchesRegex", "Empty", "NotEmpty"}

\* str(value)
\* repr(value): a string keeps its quotes
Str_Repr(value) ==
    IF "int" \in DOMAIN value THEN FormatInt(value.int)
    ELSE <<"'">> \o value.str \o <<"'">>

Str(value) == IF "int" \in DOMAIN value THEN FormatInt(value.int) ELSE value.str

\* str.capitalize() on the letters the conjunctions are written with
UpperOf(c) ==
    CASE c = "a" -> "A" [] c = "n" -> "N" [] c = "d" -> "D" [] c = "o" -> "O"
      [] c = "r" -> "R" [] c = "x" -> "X" [] OTHER -> c

LowerOf(c) ==
    CASE c = "A" -> "a" [] c = "N" -> "n" [] c = "D" -> "d" [] c = "O" -> "o"
      [] c = "R" -> "r" [] c = "X" -> "x" [] OTHER -> c

Capitalize(s) ==
    [i \in DOMAIN s |-> IF i = 1 THEN UpperOf(s[i]) ELSE LowerOf(s[i])]

\* the conjunctions add_display_logic_multiple accepts: ['AND', 'OR']
valid_conjunctions == {<<"A", "N", "D">>, <<"O", "R">>}

\* if choice_locator:  (None and the empty string are falsy)
HasLocator(choice_locator) == choice_locator # None /\ choice_locator[1] # <<>>

_build_condition(question_id, operator, choice_locator, value, logic_type) ==
    LET condition == [Type |-> "Expression", LogicType |-> logic_type]
        operand(c) == IF value # None THEN Update(c, [RightOperand |-> Str(value[1])]) ELSE c
    IN  IF logic_type = "Question"
        THEN LET asked == Update(condition, [QuestionID |-> question_id,
                                             QuestionIsInLoop |-> "no"])
             IN  IF HasLocator(choice_locator)
                 THEN Update(asked, [ChoiceLocator |-> choice_locator[1],
                                     QuestionIDFromLocator |-> question_id,
                                     LeftOperand |-> choice_locator[1],
                                     Operator |-> operator])
                 ELSE operand(Update(asked,
                         [LeftOperand |-> <<"q://", question_id, "/SelectableChoice">>,
                          Operator |-> operator]))
        ELSE IF logic_type = "EmbeddedField"
        THEN operand(Update(condition, [LeftOperand |-> <<"ed://", question_id>>,
                                        Operator |-> operator]))
        ELSE condition

\* str(i), the key of the i-th condition (i < 10)
KeyOf(i) == DigitChars[i + 1]

\* {'Type': 'If'} updated with built_conditions (a sequence, the i-th
\* condition at index i + 1)
IfBlock(built_conditions) ==
    [k \in {"Type"} \cup {KeyOf(i - 1) : i \in DOMAIN built_conditions} |->
        IF k = "Type" THEN "If"
        ELSE built_conditions[CHOOSE i \in DOMAIN built_conditions : KeyOf(i - 1) = k]]

\* display_logic
DisplayLogicOf(built_conditions) ==
    [Type |-> "BooleanExpression", inPage |-> FALSE] @@ ("0" :> IfBlock(built_conditions))

\* if current_question.get(k):  for a key that holds a dict or a list
Present(current_question, k) == k \in DOMAIN current_question /\ current_question[k] # <<>>

\* if current_question.get('SubSelector'):
PresentText(current_question, k) ==
    k \in DOMAIN current_question /\ current_question[k] \notin {PyNone, ""}

\* the copy of one optional key into question_data
CopyIf(present, current_question, k) ==
    IF present THEN (k :> current_question[k]) ELSE <<>>

\* question_data without the copy of ChoiceOrder
QuestionData_NoChoiceOrder(current_question, question_id, display_logic) ==
    [QuestionText |-> Get(current_question, "QuestionText", ""),
     DataExportTag |-> Get(current_question, "DataExportTag", <<"Q", question_id>>),
     QuestionType |-> Get(current_question, "QuestionType", PyNone),
     Selector |-> Get(current_question, "Selector", PyNone),
     DisplayLogic |-> display_logic]
    @@ CopyIf(PresentText(current_question, "SubSelector"), current_question, "SubSelector")
    @@ CopyIf(Present(current_question, "Choices"), current_question, "Choices")
    @@ CopyIf(Present(current_question, "Answers"), current_question, "Answers")

\* question_data: the body of the PUT
QuestionData(current_question, question_id, display_logic) ==
    [QuestionText |-> Get(current_question, "QuestionText", ""),
     DataExportTag |-> Get(current_question, "DataExportTag", <<"Q", question_id>>),
     QuestionType |-> Get(current_question, "QuestionType", PyNone),
     Selector |-> Get(current_question, "Selector", PyNone),
     DisplayLogic |-> display_logic]
    @@ CopyIf(PresentText(current_question, "SubSelector"), current_question, "SubSelector")
    @@ CopyIf(Present(current_question, "Choices"), current_question, "Choices")
    @@ CopyIf(Present(current_question, "Answers"), current_question, "Answers")
    @@ CopyIf(Present(current_question, "ChoiceOrder"), current_question, "ChoiceOrder")

QuestionGet == Request("GET", "question")

QuestionPut == Request("PUT", "question")

\* get_question, then the PUT of question_data: the remote store keeps the
\* question's id and takes the body as the whole record
WriteQuestion(op, args, cur, display_logic, http) ==
    IF http = "read"
    THEN Abort(op, args, "RemoteOperationFailed", <<QuestionGet>>, cur)
    ELSE LET body == QuestionData(cur, args.question_id, display_logic) IN
         IF http = "write"
         THEN [call |-> Raised(op, args, "RemoteOperationFailed",
                               <<QuestionGet, QuestionPut>>, <<body>>, cur),
               remote |-> cur]
         ELSE [call |-> Returned(op, args, TRUE, <<QuestionGet, QuestionPut>>, <<body>>, cur),
               remote |-> Update(body, [QuestionID |-> cur.QuestionID])]

\* operator not in self.OPERATORS, with the letter case ignored for Selected
IsValidOperator_CaseBlind(operator) == operator \in OPERATORS \cup {"selected"}

\* the operator check: operator in self.OPERATORS
IsValidOperator(operator) == operator \in OPERATORS

add_display_logic(cur, args, http) ==
    LET op == "add_display_logic" IN
    IF ~IsValidOperator(args.operator) THEN Abort(op, args, "InvalidOperator", <<>>, cur)
    ELSE WriteQuestion(op, args, cur,
             DisplayLogicOf(<<_build_condition(args.source_question_id, args.operator,
                                               args.choice_locator, args.value, "Question")>>),
             http)

\* cond.get(k): None when the key is absent
CondGet(cond, k) == IF k \in DOMAIN cond THEN cond[k] ELSE None

\* cond.get('operator') not in self.OPERATORS
CondOperatorValid(cond) == "operator" \in DOMAIN cond /\ IsValidOperator(cond.operator)

\* the tagging that marks the first condition too
TagCondition_All(condition, i, conjunction) ==
    Update(condition, [Conjunction |-> Capitalize(conjunction)])

\* if i > 0: built_conditions[str(i)]['Conjunction'] = conjunction.capitalize()
TagCondition(condition, i, conjunction) ==
    IF i > 0 THEN Update(condition, [Conjunction |-> Capitalize(conjunction)]) ELSE condition

\* the loop over enumerate(conditions), from the i-th condition on (i from
\* 1): the built conditions, or the error the loop stops with
RECURSIVE BuildAll(_, _, _)
BuildAll(conditions, conjunction, i) ==
    IF i > Len(conditions) THEN [error |-> "none", built |-> <<>>]
    ELSE LET cond == conditions[i] IN
         IF ~CondOperatorValid(cond) THEN [error |-> "InvalidOperator", built |-> <<>>]
         ELSE IF "source_question_id" \notin DOMAIN cond
              THEN [error |-> "KeyError", built |-> <<>>]
         ELSE LET c == _build_condition(cond.source_question_id, cond.operator,
                                        CondGet(cond, "choice_locator"),
                                        CondGet(cond, "value"), "Question")
                  tagged == TagCondition(c, i - 1, conjunction)
                  rest == BuildAll(conditions, conjunction, i + 1)
              IN  IF rest.error # "none" THEN rest
                  ELSE [error |-> "none", built |-> <<tagged>> \o rest.built]

add_display_logic_multiple(cur, args, http) ==
    LET op == "add_display_logic_multiple" IN
    IF args.conjunction \notin valid_conjunctions
    THEN Abort(op, args, "InvalidConjunction", <<>>, cur)
    ELSE IF Len(args.conditions) = 0 THEN Abort(op, args, "EmptyConditionSet", <<>>, cur)
    ELSE LET loop == BuildAll(args.conditions, args.conjunction, 1) IN
         IF loop.error # "none" THEN Abort(op, args, loop.error, <<>>, cur)
         ELSE WriteQuestion(op, args, cur, DisplayLogicOf(loop.built), http)

\* inverse_operators
inverse_operators ==
    [Selected |-> "NotSelected", NotSelected |-> "Selected",
     EqualTo |-> "NotEqualTo", NotEqualTo |-> "EqualTo",
     GreaterThan |-> "LessOrEqual", LessThan |-> "GreaterOrEqual",
     GreaterOrEqual |-> "LessThan", LessOrEqual |-> "GreaterThan",
     Contains |-> "DoesNotContain", DoesNotContain |-> "Contains",
     Empty |-> "NotEmpty", NotEmpty |-> "Empty",
     Displayed |-> "NotDisplayed", NotDisplayed |-> "Displayed"]

\* the inversion with GreaterThan turned into LessThan
InvertOperator_Mirror(operator) ==
    IF operator = "GreaterThan" THEN "LessThan"
    ELSE IF operator \in DOMAIN inverse_operators THEN inverse_operators[operator]
    ELSE operator

\* inverse_operators.get(operator, operator)
InvertOperator(operator) ==
    IF operator \in DOMAIN inverse_operators THEN inverse_operators[operator] ELSE operator

RECURSIVE Replace(_, _, _)
\* str.replace(old, new) on a string given by its parts, old not empty
Replace(s, old, new) ==
    IF Len(s) < Len(old) THEN s
    ELSE IF SubSeq(s, 1, Len(old)) = old
         THEN new \o Replace(SubSeq(s, Len(old) + 1, Len(s)), old, new)
         ELSE <<Head(s)>> \o Replace(Tail(s), old, new)

\* choice_locator.split("/")[-1]: the part after the last "/"
LastSegment(choice_locator) == choice_locator[Len(choice_locator)]

\* the choice_locator argument that skip_if hands on
SkipLocator(args) ==
    IF HasLocator(args.choice_locator) /\ args.operator \in {"Selected", "NotSelected"}
    THEN LET segment == <<"/", LastSegment(args.choice_locator[1])>>
         IN  Some(Replace(args.choice_locator[1], segment, segment))
    ELSE args.choice_locator

\* skip_if that hands the operator on as given
skip_if_Plain(cur, args, http) ==
    LET inner == add_display_logic(cur, [args EXCEPT !.choice_locator = SkipLocator(args)], http)
    IN  [inner EXCEPT !.call.op = "skip_if", !.call.args = args]

\* the call is add_display_logic's with the operator inverted and the
\* locator's last segment replaced by itself
skip_if(cur, args, http) ==
    LET inner == add_display_logic(cur,
                     [args EXCEPT !.operator = InvertOperator(args.operator),
                                  !.choice_locator = SkipLocator(args)], http)
    IN  [inner EXCEPT !.call.op = "skip_if", !.call.args = args]

show_only_if(cur, args, http) ==
    LET inner == add_display_logic(cur, args, http)
    IN  [inner EXCEPT !.call.op = "show_only_if"]

add_embedded_data_logic(cur, args, http) ==
    LET op == "add_embedded_data_logic" IN
    IF ~IsValidOperator(args.operator) THEN Abort(op, args, "InvalidOperator", <<>>, cur)
    ELSE WriteQuestion(op, args, cur,
             DisplayLogicOf(<<_build_condition(args.field_name, args.operator, None,
                                               args.value, "EmbeddedField")>>),
             http)

\* delete_display_logic with the DisplayLogic key left out of question_data
delete_display_logic_Omit(cur, args, http) ==
    LET done == WriteQuestion("delete_display_logic", args, cur, None, http)
        omit(r) == [k \in DOMAIN r \ {"DisplayLogic"} |-> r[k]]
    IN  IF Len(done.call.sent) = 0 THEN done
        ELSE [call |-> [done.call EXCEPT !.sent = <<omit(@[1])>>],
              remote |-> IF done.call.result = "ok" THEN omit(done.remote) ELSE done.remote]

\* 'DisplayLogic': None
delete_display_logic(cur, args, http) ==
    WriteQuestion("delete_display_logic", args, cur, None, http)

\* question.get('DisplayLogic')
get_display_logic(cur, args, http) ==
    LET op == "get_display_logic" IN
    IF http = "read" THEN Abort(op, args, "RemoteOperationFailed", <<QuestionGet>>, cur)
    ELSE [call |-> Returned(op, args, Get(cur, "DisplayLogic", None), <<QuestionGet>>, <<>>, cur),
          remote |-> cur]

-----------------------------------------------------------------------------
(* The surveys the flow operations start from.                             *)

BlockId(n) == <<"B", "L", "_">> \o FormatInt(n)

Block(n, k) == [Type |-> "Block", ID |-> BlockId(n), FlowID |-> FL(k)]

EndSurvey(k) == [Type |-> "EndSurvey", FlowID |-> FL(k)]

Group(k, fields) == [Type |-> "EmbeddedData", FlowID |-> FL(k), EmbeddedData |-> fields]

\* a field as the survey editor stores it (tests/test_embedded_data.py, existing_field)
RecipientField(name) ==
    [Description |-> name, Type |-> "Recipient", Field |-> name, VariableType |-> "String"]

\* a randomizer as the survey editor stores it, its nested block numbered after it
EditorRandomizer(k, n, nested) ==
    [Type |-> "BlockRandomizer", FlowID |-> FL(k), SubSet |-> 1, EvenPresentation |-> TRUE,
     Flow |-> <<Block(n, nested)>>]

\* GET /flow answers the root element
Root(flow_list) == [Type |-> "Root", FlowID |-> FL(0), Flow |-> flow_list]

WithCount(root) ==
    Update(root, [Properties |-> [Count |-> _count_flow_elements(root.Flow)]])

InitFlows ==
    { Root(<<Block(1, 1)>>),
      Root(<<Group(1, <<RecipientField("b")>>), Block(1, 2)>>),
      WithCount(Root(<<>>)),
      WithCount(Root(<<Block(1, 1), EndSurvey(2)>>)),
      WithCount(Root(<<Block(1, 1), Block(2, 2), EndSurvey(3)>>)),
      WithCount(Root(<<Group(1, <<RecipientField("b")>>), EndSurvey(2)>>)),
      WithCount(Root(<<Block(1, 1), EditorRandomizer(2, 2, 7), EndSurvey(3)>>)),
      WithCount(Root(<<Group(1, <<FieldItem("a", Some("v1"))>>), Block(1, 2),
                       Group(3, <<FieldItem("a", Some("v2")), RecipientField("b")>>),
                       EndSurvey(4)>>)),
      WithCount(Root(<<EndSurvey(1), Block(2, 2), EndSurvey(3)>>)) }

-----------------------------------------------------------------------------
(* The inputs of the flow operations.                                      *)

FieldNames == {"a", "b"}

FieldValues == {None, Some("v1"), Some("v2")}

SetEmbeddedDataInputs ==
    {[field_name |-> n, field_type |-> "text", value |-> v, position |-> p] :
        n \in FieldNames, v \in FieldValues, p \in valid_positions}
    \cup {[field_name |-> "a", field_type |-> "boolean", value |-> None, position |-> p] :
            p \in {"start", "middle"}}
    \cup {[field_name |-> "a", field_type |-> "number", value |-> None, position |-> "middle"]}

SetEmbeddedDataFieldsInputs ==
    {[fields |-> fs, position |-> p] :
        fs \in {<<>>,
                <<[name |-> "a", type |-> "text", value |-> None],
                  [name |-> "b", type |-> "date", value |-> Some("v2")]>>,
                <<[name |-> "b", type |-> "text", value |-> Some("v1")],
                  [name |-> "a", type |-> "boolean", value |-> None]>>},
        p \in {"start", "end", "middle"}}

DeleteEmbeddedDataInputs == {[field_name |-> n] : n \in FieldNames \cup {"c"}}

RandomizeBlocksInputs ==
    {[block_ids |-> ids, randomization_type |-> "random", evenly_present |-> FALSE,
      subset_count |-> c] :
        ids \in {<<>>, <<BlockId(1), BlockId(2)>>},
        c \in {None, Some(0), Some(1), Some(2)}}
    \cup {[block_ids |-> <<BlockId(3), BlockId(2)>>, randomization_type |-> "balanced",
           evenly_present |-> TRUE, subset_count |-> c] : c \in {None, Some(3)}}

\* a behaviour holds at most MaxCalls calls
MaxCalls == 2

-----------------------------------------------------------------------------
(* The actions: one call of one operation, with the remote store's answer. *)

\* the call goes through while the behaviour has calls left
Budget == ~IsMissing(flow) /\ ncalls < MaxCalls

\* the outcome r of a flow operation becomes the state
FlowCall(r) ==
    /\ ncalls' = ncalls + 1
    /\ flow' = r.remote
    /\ call' = r.call
    /\ UNCHANGED <<question, responses, export, callers>>

SetEmbeddedData ==
    /\ Budget
    /\ \E args \in SetEmbeddedDataInputs, http \in HttpFaults :
          FlowCall(set_embedded_data(flow, args, http))

SetEmbeddedDataFields ==
    /\ Budget
    /\ \E args \in SetEmbeddedDataFieldsInputs, http \in HttpFaults :
          FlowCall(set_embedded_data_fields(flow, args, http))

DeleteEmbeddedData ==
    /\ Budget
    /\ \E args \in DeleteEmbeddedDataInputs, http \in HttpFaults :
          FlowCall(delete_embedded_data(flow, args, http))

RandomizeBlocks ==
    /\ Budget
    /\ \E args \in RandomizeBlocksInputs, http \in HttpFaults :
          FlowCall(randomize_blocks(flow, args, http))

NextFlow == SetEmbeddedData \/ SetEmbeddedDataFields \/ DeleteEmbeddedData \/ RandomizeBlocks

InitFlowSide ==
    /\ flow \in InitFlows /\ question = Missing /\ call = NoCall /\ ncalls = 0
    /\ responses = Missing /\ export = Missing /\ callers = Missing

SpecFlow == InitFlowSide /\ [][NextFlow]_vars

-----------------------------------------------------------------------------
(* _get_next_flow_id as a function of the flow list: the lists it is       *)
(* applied to hold the ids the survey editor and this library write, and   *)
(* foreign ones.                                                           *)

ScanIds ==
    { FL(1), FL(2), FL(7), FL(12),
      <<"F", "L", "_", "0", "7">>,          \* FL_07
      <<"F", "L", "_", "7", "x">>,          \* FL_7x
      <<"x", "F", "L", "_", "9">>,          \* xFL_9
      FLPrefix,                             \* FL_
      FLPrefix \o BlockId(1) }              \* FL_BL_1, as randomize_blocks writes it

Leaf(id) == [Type |-> "Block", ID |-> BlockId(1), FlowID |-> id]

NoIdLeaf == [Type |-> "Block", ID |-> BlockId(1)]

\* an element nested in a nested element: the scan does not reach it
DeepNest == [Type |-> "BlockRandomizer", FlowID |-> FL(3), Flow |-> <<Leaf(FL(9))>>]

NestedFlows ==
    { <<>>, <<Leaf(FL(7))>>, <<Leaf(FL(2)), Leaf(FL(7))>>, <<NoIdLeaf, DeepNest>>,
      <<Leaf(<<"F", "L", "_", "7", "x">>)>> }

ScanElements ==
    {Leaf(id) : id \in ScanIds} \cup {NoIdLeaf}
    \cup {[Type |-> "BlockRandomizer", FlowID |-> id, Flow |-> n] :
            id \in {FL(2), Randomizer([block_ids |-> <<>>, subset_count |-> None,
                                       evenly_present |-> FALSE,
                                       randomization_type |-> "random"]).FlowID},
            n \in NestedFlows}

\* the scanned lists hold at most MaxScanLen top-level elements
MaxScanLen == 2

ScanFlows == UNION {[1..n -> ScanElements] : n \in 0..MaxScanLen}

GetNextFlowId ==
    /\ call' = Returned("_get_next_flow_id", [flow_list |-> flow.Flow],
                        _get_next_flow_id(flow.Flow), <<>>, <<>>, flow)
    /\ UNCHANGED <<flow, question, ncalls, responses, export, callers>>

InitIds ==
    /\ flow \in {Root(l) : l \in ScanFlows}
    /\ question = Missing
    /\ call = NoCall
    /\ ncalls = 0
    /\ responses = Missing /\ export = Missing /\ callers = Missing

SpecIds == InitIds /\ [][GetNextFlowId]_vars

-----------------------------------------------------------------------------
(* The questions the display-logic operations start from, and their inputs. *)

TargetId == "QID2"

SourceId == "QID1"

\* f'q://{source}/SelectableChoice/{n}'
Locator(n) == <<"q://", SourceId, "/SelectableChoice", "/", n>>

YesNo == ("1" :> [Display |-> "Yes"]) @@ ("2" :> [Display |-> "No"])

\* a condition as add_display_logic_multiple would have written it
StoredLogic ==
    DisplayLogicOf(<<_build_condition(SourceId, "NotSelected", Some(Locator("2")), None,
                                      "Question")>>)

InitQuestions ==
    { \* the record the tests' get_question returns
      [QuestionID |-> TargetId, DisplayLogic |-> None],
      \* multiple choice, no logic yet
      [QuestionID |-> TargetId, QuestionText |-> "Why?", DataExportTag |-> <<"Q2">>,
       QuestionType |-> "MC", Selector |-> "SAVR", SubSelector |-> "TX",
       Choices |-> YesNo, ChoiceOrder |-> <<"1", "2">>,
       Validation |-> [Settings |-> [ForceResponse |-> "ON"]]],
      \* text entry with logic set
      [QuestionID |-> TargetId, QuestionText |-> "Other", DataExportTag |-> <<"Q2">>,
       QuestionType |-> "TE", Selector |-> "SL", SubSelector |-> "",
       Choices |-> <<>>, DisplayLogic |-> StoredLogic],
      \* matrix: Answers, and an empty ChoiceOrder
      [QuestionID |-> TargetId, QuestionText |-> "Rate", QuestionType |-> "Matrix",
       Selector |-> "Likert", SubSelector |-> "SingleAnswer", Choices |-> YesNo,
       Answers |-> YesNo, ChoiceOrder |-> <<>>, DisplayLogic |-> StoredLogic] }

\* operator strings given by callers: the operators, and two that are not
GivenOperators == OPERATORS \cup {"selected", "Equals"}

Five == Some([int |-> 5])

\* (choice_locator, value) pairs a caller gives
OperandsOf(operator) ==
    {<<Some(Locator("1")), None>>, <<None, Five>>}
    \cup (IF operator \in {"Selected", "EqualTo", "selected"}
          THEN {<<None, None>>, <<Some(Locator("1")), Five>>,
                <<Some(<<>>), Some([int |-> 0])>>, <<None, Some([str |-> <<"5">>])>>}
          ELSE {})

AddDisplayLogicInputs ==
    UNION {{[question_id |-> TargetId, source_question_id |-> SourceId, operator |-> o,
             choice_locator |-> x[1], value |-> x[2]] : x \in OperandsOf(o)} :
           o \in GivenOperators}

ShowOnlyIfInputs == {a \in AddDisplayLogicInputs : a.choice_locator # None /\ a.value = None}

SkipIfInputs ==
    {a \in AddDisplayLogicInputs :
        \/ a.choice_locator = Some(Locator("1")) /\ a.value = None
        \/ a.choice_locator = None /\ a.value = Five}

EmbeddedDataLogicInputs ==
    {[question_id |-> TargetId, field_name |-> "user_type", operator |-> o, value |-> v] :
        o \in GivenOperators, v \in {None, Some([str |-> <<"p", "r", "o">>])}}

\* conditions a caller lists, in the order they are drawn on
ConditionPool ==
    << [source_question_id |-> SourceId, operator |-> "Selected",
        choice_locator |-> Some(Locator("1"))],
       [source_question_id |-> "QID3", operator |-> "GreaterThan", value |-> Five],
       [source_question_id |-> SourceId, operator |-> "Selected",
        choice_locator |-> Some(Locator("2"))],
       [source_question_id |-> "QID3", operator |-> "NotEmpty"],
       [source_question_id |-> SourceId, operator |-> "EqualTo",
        value |-> Some([str |-> <<"5">>])] >>

\* a caller lists at most MaxConditions conditions
MaxConditions == 3

BadOperator == [source_question_id |-> SourceId, operator |-> "Equals"]

NoSource == [operator |-> "Selected"]

NoOperator == [source_question_id |-> SourceId]

ConditionLists ==
    {Take(ConditionPool, n) : n \in 0..MaxConditions}
    \cup {<<BadOperator>>, <<ConditionPool[1], BadOperator>>, <<BadOperator, ConditionPool[1]>>,
          <<NoSource>>, <<NoSource, BadOperator>>, <<NoOperator>>}

GivenConjunctions == valid_conjunctions \cup {<<"a", "n", "d">>, <<"X", "O", "R">>}

AddDisplayLogicMultipleInputs ==
    {[question_id |-> TargetId, conditions |-> l, conjunction |-> c] :
        l \in ConditionLists, c \in GivenConjunctions}

QuestionInputs == {[question_id |-> TargetId]}

\* a behaviour holds at most MaxLogicCalls display-logic calls
MaxLogicCalls == 1

\* the display-logic calls go through while the behaviour has calls left
LogicBudget == ~IsMissing(question) /\ ncalls < MaxLogicCalls

\* the outcome r of a display-logic operation becomes the state
LogicCall(r) ==
    /\ ncalls' = ncalls + 1
    /\ question' = r.remote
    /\ call' = r.call
    /\ UNCHANGED <<flow, responses, export, callers>>

AddDisplayLogic ==
    /\ LogicBudget
    /\ \E args \in AddDisplayLogicInputs, http \in HttpFaults :
          LogicCall(add_display_logic(question, args, http))

AddDisplayLogicMultiple ==
    /\ LogicBudget
    /\ \E args \in AddDisplayLogicMultipleInputs, http \in HttpFaults :
          LogicCall(add_display_logic_multiple(question, args, http))

SkipIf ==
    /\ LogicBudget
    /\ \E args \in SkipIfInputs, http \in HttpFaults :
          LogicCall(skip_if(question, args, http))

ShowOnlyIf ==
    /\ LogicBudget
    /\ \E args \in ShowOnlyIfInputs, http \in HttpFaults :
          LogicCall(show_only_if(question, args, http))

AddEmbeddedDataLogic ==
    /\ LogicBudget
    /\ \E args \in EmbeddedDataLogicInputs, http \in HttpFaults :
          LogicCall(add_embedded_data_logic(question, args, http))

DeleteDisplayLogic ==
    /\ LogicBudget
    /\ \E args \in QuestionInputs, http \in HttpFaults :
          LogicCall(delete_display_logic(question, args, http))

GetDisplayLogic ==
    /\ LogicBudget
    /\ \E args \in QuestionInputs, http \in HttpFaults :
          LogicCall(get_display_logic(question, args, http))

NextLogic ==
    \/ AddDisplayLogic \/ AddDisplayLogicMultiple \/ SkipIf \/ ShowOnlyIf
    \/ AddEmbeddedDataLogic \/ DeleteDisplayLogic \/ GetDisplayLogic

InitLogicSide ==
    /\ flow = Missing /\ question \in InitQuestions /\ call = NoCall /\ ncalls = 0
    /\ responses = Missing /\ export = Missing /\ callers = Missing

SpecLogic == InitLogicSide /\ [][NextLogic]_vars

\* skip_if called again and again on one question
MaxSkipCalls == 2

SkipIfAgain ==
    /\ ncalls < MaxSkipCalls
    /\ \E args \in SkipIfInputs, http \in HttpFaults :
          LogicCall(skip_if(question, args, http))

SpecSkip == InitLogicSide /\ [][SkipIfAgain]_vars

-----------------------------------------------------------------------------
(* ResponseMixin: deleting responses, one by one and in bulk.  The store   *)
(* holds the survey's responses by id; a DELETE answered 200 removes one.  *)

\* the status the code takes for success
StatusOk == 200

ResponseIds == {"R_1", "R_2"}

\* what the store answers to DELETE of response_id: 200 for a stored response,
\* another status for an unknown one or when the store is at fault
DeleteAnswer(stored, response_id, fault) ==
    IF fault THEN [status |-> 500, text |-> "Internal error"]
    ELSE IF response_id \notin stored THEN [status |-> 404, text |-> "Response not found"]
    ELSE [status |-> StatusOk, text |-> ""]

DeleteRequest(response_id, answer) ==
    [method |-> "DELETE", resource |-> response_id, status |-> answer.status]

\* one DELETE: True on 200, otherwise an exception with the answer's text
delete_response(stored, response_id, fault) ==
    LET answer == DeleteAnswer(stored, response_id, fault) IN
    IF answer.status = StatusOk
    THEN [raised |-> FALSE, stored |-> stored \ {response_id},
          req |-> DeleteRequest(response_id, answer)]
    ELSE [raised |-> TRUE, stored |-> stored,
          error |-> <<"Failed to delete response: ", answer.text>>,
          req |-> DeleteRequest(response_id, answer)]

\* the loop of delete_responses from its i-th id on; s holds the loop's
\* variables, the requests issued so far and the store
RECURSIVE DeleteEach(_, _, _, _)
\* a loop that lets the first exception escape
DeleteEach_Escape(response_ids, faults, i, s) ==
    IF i > Len(response_ids) THEN s
    ELSE LET one == delete_response(s.stored, response_ids[i], faults[i])
             reqs == Append(s.reqs, one.req)
         IN  IF one.raised
             THEN [s EXCEPT !.reqs = reqs, !.raised = TRUE]
             ELSE DeleteEach(response_ids, faults, i + 1,
                      [s EXCEPT !.deleted = @ + 1, !.reqs = reqs, !.stored = one.stored])

DeleteEach(response_ids, faults, i, s) ==
    IF i > Len(response_ids) THEN s
    ELSE LET one == delete_response(s.stored, response_ids[i], faults[i])
             reqs == Append(s.reqs, one.req)
         IN  IF one.raised
             THEN DeleteEach(response_ids, faults, i + 1,
                      [s EXCEPT !.errors = Append(@, [response_id |-> response_ids[i],
                                                       error |-> one.error]),
                                !.reqs = reqs])
             ELSE DeleteEach(response_ids, faults, i + 1,
                      [s EXCEPT !.deleted = @ + 1, !.reqs = reqs, !.stored = one.stored])

delete_responses(cur, args, faults) ==
    LET op == "delete_responses"
        end == DeleteEach(args.response_ids, faults, 1,
                          [deleted |-> 0, errors |-> <<>>, reqs |-> <<>>,
                           stored |-> cur.stored, raised |-> FALSE])
    IN  IF end.raised
        THEN [call |-> Raised(op, args, "RemoteOperationFailed", end.reqs, <<>>, cur),
              remote |-> [stored |-> end.stored]]
        ELSE [call |-> Returned(op, args, [deleted |-> end.deleted, errors |-> end.errors],
                                end.reqs, <<>>, cur),
              remote |-> [stored |-> end.stored]]

\* a bulk deletion lists at most MaxIds ids
MaxIds == 3

DeleteResponsesInputs ==
    UNION {[1..n -> ResponseIds] : n \in 0..MaxIds}

\* a behaviour holds at most MaxDeleteCalls bulk deletions
MaxDeleteCalls == 1

DeleteResponses ==
    /\ ~IsMissing(responses) /\ ncalls < MaxDeleteCalls
    /\ \E ids \in DeleteResponsesInputs :
         \E faults \in [DOMAIN ids -> BOOLEAN] :
           LET r == delete_responses(responses, [response_ids |-> ids], faults) IN
           /\ ncalls' = ncalls + 1
           /\ responses' = r.remote
           /\ call' = r.call
           /\ UNCHANGED <<flow, question, export, callers>>

InitResponses ==
    /\ flow = Missing /\ question = Missing /\ call = NoCall /\ ncalls = 0
    /\ responses \in {[stored |-> s] : s \in SUBSET ResponseIds}
    /\ export = Missing /\ callers = Missing

SpecResponses == InitResponses /\ [][DeleteResponses]_vars

-----------------------------------------------------------------------------
(* ResponseMixin.export_responses: start the export, poll its progress,    *)
(* download the file.  The call runs step by step: export holds its local  *)
(* variables, the requests it has issued, and elapsed, the clock reading   *)
(* time.time() - start_time.  Time passes while a request is in flight and *)
(* in time.sleep.                                                          *)

valid_formats == {"csv", "json", "spss", "xml"}

\* format.lower() on the formats given
FormatLower(format) == IF format = "CSV" THEN "csv" ELSE format

\* the longest wait tried and the longest a request takes, in clock ticks
MaxWait == 2

MaxTook == 2

ExportInputs ==
    [format : {"csv", "CSV", "pdf"}, poll_interval : {1, 2}, max_wait : 0..MaxWait]

\* what the store answers to a progress check
ProgressAnswers ==
    {[status_code |-> StatusOk, status |-> "inProgress"],
     [status_code |-> StatusOk, status |-> "complete", fileId |-> "file_123"],
     [status_code |-> StatusOk, status |-> "failed"],
     [status_code |-> 500, status |-> PyNone]}

\* a request of the export: at and answered are the clock readings when it
\* was issued and when its answer arrived
ExportRequest(method, resource, at, answered, answer) ==
    [method |-> method, resource |-> resource, at |-> at, answered |-> answered,
     status_code |-> answer.status_code, status |-> answer.status]

Idle ==
    [pc |-> "idle", args |-> [none |-> TRUE], elapsed |-> 0, reqs |-> <<>>, file_id |-> PyNone]

\* the call ended: the call record takes its outcome
ExportRaised(e, error) ==
    [export |-> [e EXCEPT !.pc = "done"],
     call |-> Raised("export_responses", e.args, error, e.reqs, <<>>, Missing)]

\* lines 139-178: validate the format, POST the export, start the clock
StartExport(args, status_code) ==
    LET e == [Idle EXCEPT !.args = args]
        post == ExportRequest("POST", "export-responses", 0, 0,
                              [status_code |-> status_code, status |-> PyNone])
        sent == [e EXCEPT !.reqs = <<post>>]
    IN  IF FormatLower(args.format) \notin valid_formats THEN ExportRaised(e, "ValueError")
        ELSE IF status_code # StatusOk THEN ExportRaised(sent, "RemoteOperationFailed")
        ELSE [export |-> [sent EXCEPT !.pc = "polling", !.elapsed = 0], call |-> NoCall]

\* lines 188-200: what the loop does with the answer to its progress check
\* a loop that takes a failed export for one still running
OnProgress_FailedIgnored(e, answer) ==
    IF answer.status_code # StatusOk THEN ExportRaised(e, "RemoteOperationFailed")
    ELSE IF answer.status = "complete"
         THEN [export |-> [e EXCEPT !.pc = "download", !.file_id = answer.fileId],
               call |-> NoCall]
    ELSE [export |-> [e EXCEPT !.elapsed = @ + e.args.poll_interval], call |-> NoCall]

OnProgress(e, answer) ==
    IF answer.status_code # StatusOk THEN ExportRaised(e, "RemoteOperationFailed")
    ELSE IF answer.status = "complete"
         THEN [export |-> [e EXCEPT !.pc = "download", !.file_id = answer.fileId],
               call |-> NoCall]
    ELSE IF answer.status = "failed" THEN ExportRaised(e, "ExportFailed")
    ELSE [export |-> [e EXCEPT !.elapsed = @ + e.args.poll_interval], call |-> NoCall]

\* lines 179-200: one round of the while loop
\* a loop that past max_wait waits on instead of giving up
PollOnce_NoTimeout(e, answer, took) ==
    IF e.elapsed > e.args.max_wait THEN [export |-> e, call |-> NoCall]
    ELSE LET get == ExportRequest("GET", "progress", e.elapsed, e.elapsed + took, answer)
         IN  OnProgress([e EXCEPT !.reqs = Append(@, get), !.elapsed = @ + took], answer)

PollOnce(e, answer, took) ==
    IF e.elapsed > e.args.max_wait THEN ExportRaised(e, "ExportTimeout")
    ELSE LET get == ExportRequest("GET", "progress", e.elapsed, e.elapsed + took, answer)
         IN  OnProgress([e EXCEPT !.reqs = Append(@, get), !.elapsed = @ + took], answer)

\* lines 202-211: download the file
Download(e, status_code, took) ==
    LET get == ExportRequest("GET", "file", e.elapsed, e.elapsed + took,
                             [status_code |-> status_code, status |-> PyNone])
        got == [e EXCEPT !.reqs = Append(@, get), !.elapsed = @ + took]
    IN  IF status_code = StatusOk
        THEN [export |-> [got EXCEPT !.pc = "done"],
              call |-> Returned("export_responses", e.args, "content", got.reqs, <<>>, Missing)]
        ELSE ExportRaised(got, "RemoteOperationFailed")

ExportStep(r) ==
    /\ export' = r.export
    /\ call' = r.call
    /\ UNCHANGED <<flow, question, ncalls, responses, callers>>

ExportStart ==
    /\ ~IsMissing(export) /\ export.pc = "idle"
    /\ \E args \in ExportInputs, status_code \in {StatusOk, 500} :
          ExportStep(StartExport(args, status_code))

ExportPoll ==
    /\ ~IsMissing(export) /\ export.pc = "polling"
    /\ \E answer \in ProgressAnswers, took \in 0..MaxTook :
          ExportStep(PollOnce(export, answer, took))

ExportDownload ==
    /\ ~IsMissing(export) /\ export.pc = "download"
    /\ \E status_code \in {StatusOk, 500}, took \in 0..MaxTook :
          ExportStep(Download(export, status_code, took))

NextExport == ExportStart \/ ExportPoll \/ ExportDownload

InitExport ==
    /\ flow = Missing /\ question = Missing /\ call = NoCall /\ ncalls = 0
    /\ responses = Missing /\ export = Idle /\ callers = Missing

SpecExport == InitExport /\ [][NextExport]_vars

\* the call runs on: requests.post, requests.get and time.sleep return, so a
\* step of the call that can be taken is taken
SpecExportFair == SpecExport /\ WF_vars(NextExport)

-----------------------------------------------------------------------------
(* The other operations that rewrite a question: add_page_break, the       *)
(* JavaScript operations and randomize_question_choices.  Each reads the   *)
(* question and PUTs a record built from it.                               *)

\* the PUT of question_data after get_question
PutQuestion(op, args, cur, question_data, ret, http) ==
    IF http = "write"
    THEN [call |-> Raised(op, args, "RemoteOperationFailed", <<QuestionGet, QuestionPut>>,
                          <<question_data>>, cur),
          remote |-> cur]
    ELSE [call |-> Returned(op, args, ret, <<QuestionGet, QuestionPut>>, <<question_data>>, cur),
          remote |-> Update(question_data, [QuestionID |-> cur.QuestionID])]

\* question_data of add_page_break (question_management.py 148-177)
PageBreakData(current_question) ==
    [QuestionText |-> Get(current_question, "QuestionText", ""),
     DataExportTag |-> Get(current_question, "DataExportTag", None),
     QuestionType |-> Get(current_question, "QuestionType", PyNone),
     Selector |-> Get(current_question, "Selector", PyNone),
     Configuration |-> Update(Get(current_question, "Configuration", <<>>),
                              [QuestionDescriptionOption |-> "UseText"])]
    @@ CopyIf(PresentText(current_question, "SubSelector"), current_question, "SubSelector")
    @@ CopyIf(Present(current_question, "Choices"), current_question, "Choices")
    @@ CopyIf(Present(current_question, "Answers"), current_question, "Answers")
    @@ CopyIf(Present(current_question, "ChoiceOrder"), current_question, "ChoiceOrder")
    @@ CopyIf(Present(current_question, "DisplayLogic"), current_question, "DisplayLogic")

add_page_break(cur, args, http) ==
    LET op == "add_page_break" IN
    IF http = "read" THEN Abort(op, args, "RemoteOperationFailed", <<QuestionGet>>, cur)
    ELSE PutQuestion(op, args, cur, PageBreakData(cur), TRUE, http)

\* question_data built from the question read (javascript.py 553-602)
_build_question_update_data(current_question) ==
    [QuestionText |-> Get(current_question, "QuestionText", ""),
     QuestionType |-> Get(current_question, "QuestionType", PyNone),
     Selector |-> Get(current_question, "Selector", PyNone)]
    @@ CopyIf(Present(current_question, "DataExportTag"), current_question, "DataExportTag")
    @@ CopyIf(Present(current_question, "Configuration"), current_question, "Configuration")
    @@ CopyIf(PresentText(current_question, "SubSelector"), current_question, "SubSelector")
    @@ CopyIf(Present(current_question, "Choices"), current_question, "Choices")
    @@ CopyIf(Present(current_question, "Answers"), current_question, "Answers")
    @@ CopyIf(Present(current_question, "ChoiceOrder"), current_question, "ChoiceOrder")
    @@ CopyIf(Present(current_question, "AnswerOrder"), current_question, "AnswerOrder")
    @@ CopyIf(Present(current_question, "DisplayLogic"), current_question, "DisplayLogic")
    @@ CopyIf(Present(current_question, "Validation"), current_question, "Validation")
    @@ CopyIf(Present(current_question, "QuestionJS"), current_question, "QuestionJS")
    @@ CopyIf(Present(current_question, "QuestionDescription"), current_question,
              "QuestionDescription")

\* new_js: the code given, or the code held, a blank line, and the code given
NewJs(current_question, javascript_code, append) ==
    IF append /\ Present(current_question, "QuestionJS")
    THEN current_question.QuestionJS \o <<"\n\n">> \o javascript_code
    ELSE javascript_code

\* get_question, question_data['QuestionJS'] = new_js, PUT
WriteJavascript(op, cur, args, new_js, http) ==
    IF http = "read" THEN Abort(op, args, "RemoteOperationFailed", <<QuestionGet>>, cur)
    ELSE PutQuestion(op, args, cur,
                     Update(_build_question_update_data(cur), [QuestionJS |-> new_js]),
                     TRUE, http)

add_question_javascript(cur, args, http) ==
    WriteJavascript("add_question_javascript", cur, args,
                    NewJs(cur, args.javascript_code, args.append), http)

remove_question_javascript(cur, args, http) ==
    WriteJavascript("remove_question_javascript", cur, args, <<>>, http)

\* the code add_auto_advance writes around delay_ms
AutoAdvanceCode(delay_ms) ==
    <<"setTimeout(function() { that.clickNextButton(); }, ">> \o FormatInt(delay_ms) \o <<");">>

\* add_auto_advance: add_question_javascript with its code, append left out
add_auto_advance(cur, args, http) ==
    WriteJavascript("add_auto_advance", cur, args, AutoAdvanceCode(args.delay_ms), http)

\* list(choices.keys())
KeyList(choices) ==
    CHOOSE s \in [1..Cardinality(DOMAIN choices) -> DOMAIN choices] :
        {s[i] : i \in DOMAIN s} = DOMAIN choices

\* anchor_choices after the anchor_last shortcut (randomization.py 249-255)
AnchorChoices(anchor_choices, anchor_last, choice_order) ==
    IF anchor_last /\ choice_order # <<>>
    THEN LET last_choice == choice_order[Len(choice_order)] IN
         IF anchor_choices = None THEN <<last_choice>>
         ELSE IF \E i \in DOMAIN anchor_choices[1] : anchor_choices[1][i] = last_choice
              THEN anchor_choices[1]
              ELSE Append(anchor_choices[1], last_choice)
    ELSE IF anchor_choices = None THEN <<>> ELSE anchor_choices[1]

\* list(fixed_positions.keys()): the anchored keys that are choices, each once
FixedOrder(anchor_choices, choices) ==
    LET kept == SelectSeq(anchor_choices, LAMBDA k : k \in DOMAIN choices)
        first(i) == \A j \in 1..(i - 1) : kept[j] # kept[i]
        n == Cardinality({i \in DOMAIN kept : first(i)})
    IN  [m \in 1..n |->
            kept[CHOOSE i \in DOMAIN kept :
                    first(i) /\ Cardinality({j \in 1..i : first(j)}) = m]]

\* randomization_config, None when randomize is off
RandomizationConfig(randomize, anchor_choices, choices) ==
    IF ~randomize THEN None
    ELSE LET fixed == FixedOrder(anchor_choices, choices) IN
         IF fixed # <<>>
         THEN Some([Type |-> "All",
                    Advanced |-> [FixedOrder |-> fixed, RandomizeAll |-> "RandomWithFixed"]])
         ELSE Some([Type |-> "All"])

\* question_data of randomize_question_choices (randomization.py 281-296)
RandomizeData(current_question, choices, choice_order, randomization_config) ==
    [QuestionText |-> Get(current_question, "QuestionText", ""),
     QuestionType |-> Get(current_question, "QuestionType", "MC"),
     Selector |-> Get(current_question, "Selector", "SAVR"),
     Choices |-> choices,
     ChoiceOrder |-> choice_order,
     Configuration |-> Get(current_question, "Configuration", <<>>),
     Validation |-> Get(current_question, "Validation", <<>>),
     Language |-> Get(current_question, "Language", <<>>)]
    @@ (IF randomization_config # None THEN ("Randomization" :> randomization_config[1])
        ELSE <<>>)

\* the answer to the PUT holds no result: question_data is returned
randomize_question_choices(cur, args, http) ==
    LET op == "randomize_question_choices" IN
    IF http = "read" THEN Abort(op, args, "RemoteOperationFailed", <<QuestionGet>>, cur)
    ELSE IF "Choices" \notin DOMAIN cur
    THEN Abort(op, args, "ValueError", <<QuestionGet>>, cur)
    ELSE LET choices == cur.Choices
             choice_order == Get(cur, "ChoiceOrder", KeyList(choices))
             anchor_choices == AnchorChoices(args.anchor_choices, args.anchor_last, choice_order)
             question_data ==
                 RandomizeData(cur, choices, choice_order,
                               RandomizationConfig(args.randomize, anchor_choices, choices))
         IN  PutQuestion(op, args, cur, question_data, question_data, http)

JavascriptInputs ==
    {[question_id |-> TargetId, javascript_code |-> <<"alert(1);">>, append |-> a] :
        a \in BOOLEAN}

\* delay_ms: int = 3000
DefaultDelayMs == 3000

AutoAdvanceInputs == {[question_id |-> TargetId, delay_ms |-> DefaultDelayMs]}

RandomizeInputs ==
    [question_id : {TargetId}, randomize : BOOLEAN, anchor_last : BOOLEAN,
     anchor_choices : {None, Some(<<"1">>), Some(<<"2", "9">>)}]

\* the setter calls made between the edits
SetLogicInputs ==
    {a \in AddDisplayLogicInputs :
        a.operator = "Selected" /\ a.choice_locator = Some(Locator("1")) /\ a.value = None}

\* a behaviour holds at most MaxEditCalls calls on the question
MaxEditCalls == 2

EditBudget == ~IsMissing(question) /\ ncalls < MaxEditCalls

AddPageBreak ==
    /\ EditBudget
    /\ \E args \in QuestionInputs, http \in HttpFaults :
          LogicCall(add_page_break(question, args, http))

AddQuestionJavascript ==
    /\ EditBudget
    /\ \E args \in JavascriptInputs, http \in HttpFaults :
          LogicCall(add_question_javascript(question, args, http))

RemoveQuestionJavascript ==
    /\ EditBudget
    /\ \E args \in QuestionInputs, http \in HttpFaults :
          LogicCall(remove_question_javascript(question, args, http))

AddAutoAdvance ==
    /\ EditBudget
    /\ \E args \in AutoAdvanceInputs, http \in HttpFaults :
          LogicCall(add_auto_advance(question, args, http))

RandomizeQuestionChoices ==
    /\ EditBudget
    /\ \E args \in RandomizeInputs, http \in HttpFaults :
          LogicCall(randomize_question_choices(question, args, http))

SetLogic ==
    /\ EditBudget
    /\ \E args \in SetLogicInputs, http \in HttpFaults :
          LogicCall(add_display_logic(question, args, http))

DeleteLogic ==
    /\ EditBudget
    /\ \E args \in QuestionInputs, http \in HttpFaults :
          LogicCall(delete_display_logic(question, args, http))

NextEdit ==
    \/ AddPageBreak \/ AddQuestionJavascript \/ RemoveQuestionJavascript \/ AddAutoAdvance
    \/ RandomizeQuestionChoices \/ SetLogic \/ DeleteLogic

SpecEdit == InitLogicSide /\ [][NextEdit]_vars

-----------------------------------------------------------------------------
(* Two callers at work on one survey flow.  A call is two steps: it reads  *)
(* the flow (GET) and keeps what it read in its local current_flow; later it  *)
(* writes the flow it built from that (PUT).  The store does not compare   *)
(* versions, and the callers' steps interleave freely.                     *)

Callers == {"A", "B"}

RaceInputs ==
    {[op |-> "set_embedded_data", args |-> a] : a \in SetEmbeddedDataInputs}
    \cup {[op |-> "delete_embedded_data", args |-> a] : a \in DeleteEmbeddedDataInputs}

\* the client's operations by name
Handle(op, cur, args, http) ==
    CASE op = "set_embedded_data" -> set_embedded_data(cur, args, http)
      [] op = "set_embedded_data_fields" -> set_embedded_data_fields(cur, args, http)
      [] op = "delete_embedded_data" -> delete_embedded_data(cur, args, http)
      [] op = "randomize_blocks" -> randomize_blocks(cur, args, http)
      [] op = "add_display_logic" -> add_display_logic(cur, args, http)
      [] op = "add_display_logic_multiple" -> add_display_logic_multiple(cur, args, http)
      [] op = "skip_if" -> skip_if(cur, args, http)
      [] op = "show_only_if" -> show_only_if(cur, args, http)
      [] op = "add_embedded_data_logic" -> add_embedded_data_logic(cur, args, http)
      [] op = "delete_display_logic" -> delete_display_logic(cur, args, http)
      [] op = "get_display_logic" -> get_display_logic(cur, args, http)

\* a caller that has not called yet.  seen is its current_flow; after counts the
\* writes the store had taken when it read; wrote is the rank of its own
\* write among the writes the store took, 0 when it wrote nothing
Waiting ==
    [pc |-> "idle", op |-> "none", args |-> [none |-> TRUE], seen |-> Missing,
     after |-> 0, wrote |-> 0, result |-> NoCall]

WritesTaken == Cardinality({c \in Callers : callers[c].wrote > 0})

\* current_flow = flow_response.json()['result'] of an earlier step
\* a caller that works on the flow as the store holds it now
CurrentFlow_Fresh(c) == flow

CurrentFlow(c) == callers[c].seen

\* the call up to its GET: it ends here when it raises before any write
CallerReads(c) ==
    /\ ~IsMissing(callers) /\ callers[c].pc = "idle"
    /\ \E in \in RaceInputs, http \in {"none", "read"} :
         LET r == Handle(in.op, flow, in.args, http) IN
         /\ callers' = [callers EXCEPT ![c] =
                IF r.call.sent = <<>>
                THEN [@ EXCEPT !.pc = "done", !.op = in.op, !.args = in.args,
                               !.after = WritesTaken, !.result = r.call]
                ELSE [@ EXCEPT !.pc = "read", !.op = in.op, !.args = in.args,
                               !.after = WritesTaken, !.seen = flow]]
         /\ call' = IF r.call.sent = <<>> THEN r.call ELSE call
         /\ UNCHANGED <<flow, question, ncalls, responses, export>>

\* the rest of the call: build the new flow from current_flow and PUT it
CallerWrites(c) ==
    /\ ~IsMissing(callers) /\ callers[c].pc = "read"
    /\ \E http \in {"none", "write"} :
         LET r == Handle(callers[c].op, CurrentFlow(c), callers[c].args, http)
             taken == r.call.result = "ok"
         IN
         /\ callers' = [callers EXCEPT ![c] =
                [@ EXCEPT !.pc = "done", !.result = r.call,
                          !.wrote = IF taken THEN WritesTaken + 1 ELSE 0]]
         /\ flow' = IF taken THEN r.call.sent[1] ELSE flow
         /\ call' = r.call
         /\ UNCHANGED <<question, ncalls, responses, export>>

NextRace == \E c \in Callers : CallerReads(c) \/ CallerWrites(c)

InitRace ==
    /\ flow \in InitFlows /\ question = Missing /\ call = NoCall /\ ncalls = 0
    /\ responses = Missing /\ export = Missing
    /\ callers = [c \in Callers |-> Waiting]

SpecRace == InitRace /\ [][NextRace]_vars

\* The flow and the question are separate remote resources: no operation on
\* one reads or writes the other, so a behaviour works on one of them.
Init == InitFlowSide \/ InitLogicSide

Next == NextFlow \/ NextLogic

Spec == Init /\ [][Next]_vars

-----------------------------------------------------------------------------
(* Vocabulary of the properties.                                           *)

IsCall(op) == call.op = op

Succeeded == call.result = "ok"

\* the remote store refused the call's first request
ReadRefused == call.result = "RemoteOperationFailed" /\ Len(call.reqs) = 1

Writes == {i \in DOMAIN call.reqs : call.reqs[i].method = "PUT"}

\* the flow list the call fetched, and the stored one after the call
OldList == Get(call.before, "Flow", <<>>)

NewList == Get(flow, "Flow", <<>>)

Elements(list) == {list[i] : i \in DOMAIN list}

\* the top-level elements and those nested one level inside them
Scanned(list) ==
    Elements(list) \cup UNION {Elements(e.Flow) : e \in {x \in Elements(list) : "Flow" \in DOMAIN x}}

\* the n of an id that reads FL_<n> (FL_, then digits, then no further
\* digit), and 0 for any other id
ReadNumber(id) ==
    LET ends == {k \in 4..Len(id) :
                    /\ SubSeq(id, 1, 3) = <<"F", "L", "_">>
                    /\ \A j \in 4..k : IsDigit(id[j])
                    /\ (k = Len(id) \/ ~IsDigit(id[k + 1]))}
    IN  IF ends = {} THEN 0 ELSE ParseInt(SubSeq(id, 4, CHOOSE k \in ends : TRUE))

Largest(S) == CHOOSE x \in S : \A y \in S : y <= x

-----------------------------------------------------------------------------
\* C4: _get_next_flow_id returns FL_<m+1>, m the largest n of a FlowID FL_<n>
\* among the top-level elements and the elements nested one level inside
\* them; other ids count as 0: an empty flow gives FL_1, and FL_1, FL_2 with
\* a nested FL_7 give FL_8.
C4_NextFlowId ==
    IsCall("_get_next_flow_id") =>
        LET list == call.args.flow_list
            m == Largest({0} \cup {ReadNumber(FlowIdOf(e)) : e \in Scanned(list)})
        IN  /\ call.result = "ok"
            /\ call.ret = Some(<<"F", "L", "_">> \o FormatInt(m + 1))
            /\ (list = <<>> => call.ret = Some(<<"F", "L", "_", "1">>))
            /\ ( /\ {FlowIdOf(e) : e \in Elements(list)} = {FL(1), FL(2)}
                 /\ \E e \in Elements(list) :
                        "Flow" \in DOMAIN e /\ {FlowIdOf(x) : x \in Elements(e.Flow)} = {FL(7)}
                 => call.ret = Some(<<"F", "L", "_", "8">>) )

\* FL_1 and FL_2 at the top level, FL_7 nested in the second: FL_8 is returned
C4_Witness ==
    /\ IsCall("_get_next_flow_id")
    /\ Len(call.args.flow_list) = 2
    /\ FlowIdOf(call.args.flow_list[1]) = FL(1)
    /\ FlowIdOf(call.args.flow_list[2]) = FL(2)
    /\ "Flow" \in DOMAIN call.args.flow_list[2]
    /\ call.args.flow_list[2].Flow = <<Leaf(FL(7))>>
    /\ call.ret = Some(<<"F", "L", "_", "8">>)

-----------------------------------------------------------------------------
(* The embedded-data upsert.                                               *)

IsUpsert == IsCall("set_embedded_data") \/ IsCall("set_embedded_data_fields")

\* the fields a call of the upsert was given, in order, as [name, value]
GivenFields(c) ==
    IF c.op = "set_embedded_data"
    THEN <<[name |-> c.args.field_name, value |-> c.args.value]>>
    ELSE [i \in DOMAIN c.args.fields |->
             [name |-> c.args.fields[i].name, value |-> c.args.fields[i].value]]

\* a stored field carries the value: the Value key holds it, or is absent for None
Carries(f, value) ==
    IF value = None THEN "Value" \notin DOMAIN f ELSE "Value" \in DOMAIN f /\ f.Value = value[1]

Named(fields, name) == {i \in DOMAIN fields : fields[i].Field = name}

StartUpsertOk(c) ==
    /\ c.op \in {"set_embedded_data", "set_embedded_data_fields"}
    /\ c.result = "ok"
    /\ c.args.position = "start"

\* C5: two upserts with position=start that give the same field name leave
\* exactly one field of that name in the EmbeddedData group at index 0, and it
\* carries the value of the second call, an absent value included.
C5_SecondValueWins ==
    [][ (StartUpsertOk(call) /\ StartUpsertOk(call')) =>
          \A i \in DOMAIN GivenFields(call), j \in DOMAIN GivenFields(call') :
              GivenFields(call)[i].name = GivenFields(call')[j].name =>
                  LET group == flow'.Flow[1]
                      hits == Named(group.EmbeddedData, GivenFields(call')[j].name)
                  IN  /\ IsType(group, "EmbeddedData")
                      /\ Cardinality(hits) = 1
                      /\ \A h \in hits :
                            Carries(group.EmbeddedData[h], GivenFields(call')[j].value)
      ]_vars

\* the position of the first EndSurvey of a list, or one past its end
EndPosition(list) ==
    LET ends == {i \in DOMAIN list : list[i].Type = "EndSurvey"}
    IN  IF ends = {} THEN Len(list) + 1 ELSE CHOOSE i \in ends : \A k \in ends : i <= k

\* list with the element at position i taken out
Without(list, i) == SubSeq(list, 1, i - 1) \o SubSeq(list, i + 1, Len(list))

EndUpsertOk == IsUpsert /\ Succeeded /\ call.args.position = "end"

\* no EmbeddedData group sits right before the end position of the fetched flow
NoGroupBeforeEnd ==
    EndPosition(OldList) = 1 \/ OldList[EndPosition(OldList) - 1].Type # "EmbeddedData"

\* C6: when the element right before the first EndSurvey (the last element
\* when there is none) is not an EmbeddedData group, an upsert with
\* position=end puts one new group holding the given fields right before that
\* EndSurvey and keeps every other element, in order.
C6_EndInsertsBeforeEndSurvey ==
    (EndUpsertOk /\ NoGroupBeforeEnd) =>
        LET p == EndPosition(OldList) IN
        /\ Len(NewList) = Len(OldList) + 1
        /\ NewList[p].Type = "EmbeddedData"
        /\ NewList[p] \notin Elements(OldList)
        /\ Len(NewList[p].EmbeddedData) = Len(GivenFields(call))
        /\ \A i \in DOMAIN GivenFields(call) :
              /\ NewList[p].EmbeddedData[i].Field = GivenFields(call)[i].name
              /\ Carries(NewList[p].EmbeddedData[i], GivenFields(call)[i].value)
        /\ Without(NewList, p) = OldList
        /\ (p <= Len(OldList) => NewList[p + 1].Type = "EndSurvey")
        /\ call.sent = <<flow>>

Types(list) == [i \in DOMAIN list |-> list[i].Type]

\* [Block, EndSurvey] has become [Block, EmbeddedData, EndSurvey]
C6_Witness ==
    /\ EndUpsertOk
    /\ Types(OldList) = <<"Block", "EndSurvey">>
    /\ Types(NewList) = <<"Block", "EmbeddedData", "EndSurvey">>

\* C7: randomize_blocks with a subset_count that is given and is at least
\* the number of block ids fails with InvalidSubsetCount.
C7_SubsetCountRejected ==
    ( /\ IsCall("randomize_blocks")
      /\ call.args.subset_count # None
      /\ call.args.subset_count[1] >= Len(call.args.block_ids) ) =>
        /\ call.result = "InvalidSubsetCount"
        /\ flow = call.before

\* subset_count equal to the number of block ids was refused
C7_Witness ==
    /\ IsCall("randomize_blocks")
    /\ call.args.subset_count = Some(Len(call.args.block_ids))
    /\ Len(call.args.block_ids) = 2
    /\ call.result = "InvalidSubsetCount"

\* no EmbeddedData group of the list holds a field of that name
HeldNowhere(list, name) ==
    \A e \in Elements(list) :
        e.Type = "EmbeddedData" =>
            \A i \in DOMAIN Get(e, "EmbeddedData", <<>>) : e.EmbeddedData[i].Field # name

\* C9: delete_embedded_data on a fetched flow in which no EmbeddedData group
\* holds a field of the given name fails with FieldNotFound, issues no write
\* and leaves the flow as it was.
C9_DeleteMissingField ==
    ( /\ IsCall("delete_embedded_data")
      /\ ~ReadRefused
      /\ HeldNowhere(OldList, call.args.field_name) ) =>
        /\ call.result = "FieldNotFound"
        /\ Writes = {}
        /\ call.sent = <<>>
        /\ flow = call.before

\* a delete of a name no group holds, on a flow that has a group, was refused
C9_Witness ==
    /\ IsCall("delete_embedded_data")
    /\ HeldNowhere(OldList, call.args.field_name)
    /\ \E e \in Elements(OldList) : e.Type = "EmbeddedData" /\ e.EmbeddedData # <<>>
    /\ call.result = "FieldNotFound"
    /\ flow = call.before

-----------------------------------------------------------------------------
(* The display-logic writes.                                               *)

\* the body of the call's PUT, its If block and the conditions in it
Body == call.sent[1]

IfOf(body) == body.DisplayLogic["0"]

ConditionKeys(block) == DOMAIN block \ {"Type"}

\* the first request of the call was answered and a body was put together
Wrote == Len(call.sent) = 1

SingleConditionOps == {"add_display_logic", "show_only_if", "skip_if", "add_embedded_data_logic"}

\* the entries of a condition list whose operator is absent or not an operator
BadEntries(conditions) ==
    {i \in DOMAIN conditions :
        "operator" \notin DOMAIN conditions[i] \/ conditions[i].operator \notin OPERATORS}

\* the loop of add_display_logic_multiple is entered
LoopEntered ==
    /\ IsCall("add_display_logic_multiple")
    /\ call.args.conjunction \in {<<"A", "N", "D">>, <<"O", "R">>}
    /\ call.args.conditions # <<>>

\* C1: the operator set has 15 members; a call of add_display_logic,
\* show_only_if, skip_if or add_embedded_data_logic fails with InvalidOperator
\* exactly when its operator is outside the set; a call of
\* add_display_logic_multiple that gets to its conditions fails with
\* InvalidOperator when one of them has an operator outside the set (the
\* conditions before it naming their source question), and never when all
\* operators are in the set.
C1_OperatorCheck ==
    /\ Cardinality(OPERATORS) = 15
    /\ call.op \in SingleConditionOps =>
          (call.result = "InvalidOperator" <=> call.args.operator \notin OPERATORS)
    /\ LoopEntered =>
          LET conditions == call.args.conditions
              bad == BadEntries(conditions)
          IN  /\ bad = {} => call.result # "InvalidOperator"
              /\ ( /\ bad # {}
                   /\ \A i \in DOMAIN conditions :
                         (\A b \in bad : i < b) => "source_question_id" \in DOMAIN conditions[i] )
                 => call.result = "InvalidOperator"

\* skip_if with an operator outside the set was refused
C1_Witness ==
    /\ IsCall("skip_if")
    /\ call.args.operator = "Equals"
    /\ call.result = "InvalidOperator"

\* the call listed N >= 1 well-formed conditions joined by AND or OR, and its
\* read was answered
ListedValid ==
    /\ LoopEntered
    /\ BadEntries(call.args.conditions) = {}
    /\ \A i \in DOMAIN call.args.conditions :
          "source_question_id" \in DOMAIN call.args.conditions[i]
    /\ ~ReadRefused

\* the If block holds the N conditions under the keys "0".."N-1", in the
\* order given, the first without a Conjunction
EntriesInOrder ==
    LET conditions == call.args.conditions
        block == IfOf(Body)
    IN  /\ Wrote
        /\ block.Type = "If"
        /\ ConditionKeys(block) = {DigitChars[i] : i \in DOMAIN conditions}
        /\ \A i \in DOMAIN conditions :
              /\ block[DigitChars[i]].Operator = conditions[i].operator
              /\ block[DigitChars[i]].QuestionID = conditions[i].source_question_id
        /\ "Conjunction" \notin DOMAIN block["0"]

\* the text every condition after the first carries as its Conjunction is t
TaggedWith(t) ==
    \A i \in DOMAIN call.args.conditions :
        i > 1 => LET c == IfOf(Body)[DigitChars[i]]
                 IN  "Conjunction" \in DOMAIN c /\ c.Conjunction = t

\* C2 as stated: add_display_logic_multiple with N valid conditions and
\* conjunction C in {AND, OR} writes an If block with exactly N conditions
\* keyed "0".."N-1" in input order, condition 0 without a conjunction and
\* every later condition carrying C.
C2_ConjunctionAsGiven ==
    ListedValid => EntriesInOrder /\ TaggedWith(call.args.conjunction)

\* C2 amended: the same, with every later condition carrying C with only
\* its first letter in upper case: And for AND, Or for OR.
C2_ConjunctionCapitalized ==
    ListedValid =>
        /\ EntriesInOrder
        /\ TaggedWith(IF call.args.conjunction = <<"A", "N", "D">>
                      THEN <<"A", "n", "d">> ELSE <<"O", "r">>)

\* three conditions joined by OR were written
C2_Witness ==
    /\ ListedValid
    /\ Succeeded
    /\ Len(call.args.conditions) = 3
    /\ call.args.conjunction = <<"O", "R">>
    /\ question.DisplayLogic["0"]["2"].Conjunction = <<"O", "r">>

\* the operator a skip_if call wrote
WrittenOperator(c) == c.sent[1].DisplayLogic["0"]["0"].Operator

SkippedOk(c) == c.op = "skip_if" /\ c.result = "ok"

\* C3: the inversion of skip_if is an involution on the operators that have
\* a defined inverse: a skip_if given the operator that a skip_if with such an
\* operator op wrote, writes op.
C3_InversionInvolution ==
    [][ ( /\ SkippedOk(call)
          /\ SkippedOk(call')
          /\ call.args.operator \in DOMAIN inverse_operators
          /\ call'.args.operator = WrittenOperator(call) )
        => WrittenOperator(call') = call.args.operator ]_vars

\* skip_if with LessOrEqual wrote GreaterThan on a question whose logic, left
\* by a skip_if before it, held LessOrEqual
C3_Witness ==
    /\ ncalls = 2
    /\ SkippedOk(call)
    /\ call.args.operator = "LessOrEqual"
    /\ WrittenOperator(call) = "GreaterThan"
    /\ call.before.DisplayLogic["0"]["0"].Operator = "LessOrEqual"

\* the one condition the call was given, for the calls that apply a single
\* condition as given
OneCondition ==
    IF IsCall("add_display_logic_multiple")
    THEN (IF Len(call.args.conditions) = 1 THEN call.args.conditions
          ELSE <<>>)
    ELSE IF call.op \in {"add_display_logic", "show_only_if"} THEN <<call.args>>
    ELSE <<>>

\* the condition names the operator Selected and a choice locator
SelectedWithLocator(c) ==
    /\ "operator" \in DOMAIN c /\ c.operator = "Selected"
    /\ "source_question_id" \in DOMAIN c
    /\ "choice_locator" \in DOMAIN c
    /\ c.choice_locator # <<>> /\ c.choice_locator[1] # <<>>

\* the record has the key k, and v under it
Holds(r, k, v) == k \in DOMAIN r /\ r[k] = v

\* the fetched question has Choices and ChoiceOrder
HasChoices(q) ==
    /\ "Choices" \in DOMAIN q /\ q.Choices # <<>>
    /\ "ChoiceOrder" \in DOMAIN q /\ q.ChoiceOrder # <<>>

\* C8: display logic of one condition with operator Selected and a choice
\* locator L, applied to a fetched question that has Choices and ChoiceOrder,
\* writes a record whose DisplayLogic["0"]["0"] has Operator Selected and
\* ChoiceLocator L and whose Choices and ChoiceOrder are the fetched ones.
C8_SelectedKeepsChoices ==
    \A i \in DOMAIN OneCondition :
        ( /\ SelectedWithLocator(OneCondition[i])
          /\ call.result \notin {"InvalidConjunction"}
          /\ ~ReadRefused
          /\ HasChoices(call.before) ) =>
            /\ Wrote
            /\ Holds(IfOf(Body)["0"], "Operator", "Selected")
            /\ Holds(IfOf(Body)["0"], "ChoiceLocator", OneCondition[i].choice_locator[1])
            /\ Holds(Body, "Choices", call.before.Choices)
            /\ Holds(Body, "ChoiceOrder", call.before.ChoiceOrder)
            /\ Succeeded => /\ Holds(question, "Choices", call.before.Choices)
                            /\ Holds(question, "ChoiceOrder", call.before.ChoiceOrder)

\* Selected with the locator of choice 1 was written to the multiple-choice
\* question
C8_Witness ==
    /\ IsCall("add_display_logic")
    /\ Succeeded
    /\ SelectedWithLocator(call.args)
    /\ HasChoices(call.before)
    /\ question.DisplayLogic["0"]["0"].ChoiceLocator = call.args.choice_locator[1]
    /\ question.ChoiceOrder = <<"1", "2">>

-----------------------------------------------------------------------------
(* The validation errors.                                                  *)

InputErrors ==
    {"InvalidOperator", "InvalidConjunction", "EmptyConditionSet", "InvalidPosition",
     "InvalidSubsetCount"}

\* the remote records are as the call found them
Untouched ==
    IF IsMissing(flow) THEN question = call.before ELSE flow = call.before

\* C10 as stated: each of InvalidOperator, InvalidConjunction,
\* EmptyConditionSet, InvalidPosition, InvalidSubsetCount and FieldNotFound is
\* raised before the operation has issued any HTTP request.
C10_RaisedBeforeAnyRequest ==
    call.result \in InputErrors \cup {"FieldNotFound"} => call.reqs = <<>>

\* C10 amended: InvalidOperator, InvalidConjunction, EmptyConditionSet,
\* InvalidPosition and InvalidSubsetCount are raised before the operation has
\* issued any HTTP request; FieldNotFound is raised after the one read of the
\* flow and before any write; none of the six leaves a change.
C10_RaisedBeforeAnyWrite ==
    /\ call.result \in InputErrors => call.reqs = <<>> /\ call.sent = <<>> /\ Untouched
    /\ call.result = "FieldNotFound" =>
          call.reqs = <<[method |-> "GET", resource |-> "flow"]>> /\ call.sent = <<>> /\ Untouched

\* an unknown conjunction was refused with no request issued
C10_Witness ==
    /\ call.result = "InvalidConjunction"
    /\ call.reqs = <<>>
    /\ ~IsMissing(question)

\* C11: a call that fails input validation (InvalidOperator,
\* InvalidConjunction, EmptyConditionSet, InvalidPosition, InvalidSubsetCount,
\* or InvalidFieldType of set_embedded_data and set_embedded_data_fields)
\* issues no write request, and the remote question and flow are as they were
\* before the call.
C11_NoWriteOnInvalidInput ==
    call.result \in InputErrors \cup {"InvalidFieldType"} =>
        /\ Writes = {}
        /\ call.sent = <<>>
        /\ Untouched

\* set_embedded_data_fields found a field of an invalid type after it had
\* fetched the flow, and wrote nothing
C11_Witness ==
    /\ IsCall("set_embedded_data_fields")
    /\ call.result = "InvalidFieldType"
    /\ Len(call.reqs) = 1
    /\ Writes = {}
    /\ flow = call.before

-----------------------------------------------------------------------------
(* The flow tree.                                                          *)

RECURSIVE TreeIds(_)
\* the FlowIDs of the elements of a flow list and of the lists nested in
\* them, one entry per element that has a FlowID
TreeIds(list) ==
    IF Len(list) = 0 THEN <<>>
    ELSE LET e == Head(list)
             own == IF "FlowID" \in DOMAIN e THEN <<e.FlowID>> ELSE <<>>
             inner == IF "Flow" \in DOMAIN e THEN TreeIds(e.Flow) ELSE <<>>
         IN  own \o inner \o TreeIds(Tail(list))

PairwiseDistinct(ids) == \A i, j \in DOMAIN ids : i # j => ids[i] # ids[j]

\* C12: from a flow whose FlowIDs are pairwise distinct, after any sequence of
\* successful set_embedded_data, set_embedded_data_fields,
\* delete_embedded_data and randomize_blocks calls the FlowIDs of all
\* elements of the flow tree, nested ones included, are pairwise distinct.
C12_FlowIdsDistinct ==
    [][ (PairwiseDistinct(TreeIds(Get(flow, "Flow", <<>>))) /\ call'.result = "ok")
        => PairwiseDistinct(TreeIds(Get(flow', "Flow", <<>>))) ]_vars

FlowOps ==
    {"set_embedded_data", "set_embedded_data_fields", "delete_embedded_data",
     "randomize_blocks"}

\* C13: after every successful structural change of the flow (embedded-data
\* upsert, embedded-data delete, wrapping blocks in a randomizer) the
\* Properties.Count of the flow that was written equals the recursive count
\* of its top-level and nested elements.
C13_CountMatchesFlow ==
    (call.op \in FlowOps /\ Succeeded) =>
        /\ "Properties" \in DOMAIN call.sent[1]
        /\ "Count" \in DOMAIN call.sent[1].Properties
        /\ call.sent[1].Properties.Count = _count_flow_elements(call.sent[1].Flow)

-----------------------------------------------------------------------------
(* Removal of display logic.                                               *)

\* C14: delete_display_logic writes, for every fetched question, with or
\* without display logic, a record that has the DisplayLogic key, set to an
\* explicit null; the key is never left out.
C14_DeleteWritesNull ==
    (IsCall("delete_display_logic") /\ ~ReadRefused) =>
        /\ Wrote
        /\ "DisplayLogic" \in DOMAIN Body
        /\ Body.DisplayLogic = None
        /\ Succeeded => "DisplayLogic" \in DOMAIN question /\ question.DisplayLogic = None

\* the logic of a question that had some was removed
C14_Witness ==
    /\ IsCall("delete_display_logic")
    /\ Succeeded
    /\ "DisplayLogic" \in DOMAIN call.before
    /\ call.before.DisplayLogic # None
    /\ question.DisplayLogic = None

-----------------------------------------------------------------------------
(* Bulk deletion of responses.                                             *)

\* the ids given to the bulk deletion
GivenIds == call.args.response_ids

\* the positions of the list whose DELETE was not answered 200
RECURSIVE FailedIds(_, _)
FailedIds(reqs, i) ==
    IF i > Len(reqs) THEN <<>>
    ELSE IF reqs[i].status # StatusOk
         THEN <<reqs[i].resource>> \o FailedIds(reqs, i + 1)
         ELSE FailedIds(reqs, i + 1)

\* C15: a bulk deletion issues one DELETE per listed id, in list order,
\* whatever the earlier ones were answered; it returns and never raises; the
\* deleted count plus the number of errors is the number of ids; the errors
\* name exactly the ids whose DELETE failed, in order.
C15_BulkDeleteAttemptsAll ==
    IsCall("delete_responses") =>
        /\ Succeeded
        /\ Len(call.reqs) = Len(GivenIds)
        /\ \A i \in DOMAIN GivenIds :
              call.reqs[i].method = "DELETE" /\ call.reqs[i].resource = GivenIds[i]
        /\ call.ret[1].deleted + Len(call.ret[1].errors) = Len(GivenIds)
        /\ [i \in DOMAIN call.ret[1].errors |-> call.ret[1].errors[i].response_id]
              = FailedIds(call.reqs, 1)

\* a deletion whose first DELETE failed and whose later one went through
C15_Witness ==
    /\ IsCall("delete_responses")
    /\ Len(GivenIds) = 3
    /\ call.reqs[1].status # StatusOk
    /\ call.reqs[3].status = StatusOk
    /\ call.ret[1].deleted >= 1 /\ Len(call.ret[1].errors) >= 1

-----------------------------------------------------------------------------
(* Export polling.                                                         *)

ExportEnded == {"ExportFailed", "ExportTimeout"}

\* the step issued a progress check
Checked == Len(export'.reqs) = Len(export.reqs) + 1 /\ export.pc = "polling"

AnswerSeen == export'.reqs[Len(export'.reqs)]

\* a progress check answered failed ends the export with ExportFailed; a
\* round of the loop that starts with the clock past max_wait ends it with
\* ExportTimeout and issues nothing; an export so ended has issued no
\* download and takes no further step
PollingRound ==
    /\ (Checked /\ AnswerSeen.status = "failed") => call'.result = "ExportFailed"
    /\ (export.pc = "polling" /\ export.elapsed > export.args.max_wait) =>
          /\ call'.result = "ExportTimeout"
          /\ export'.reqs = export.reqs
    /\ call'.result \in ExportEnded =>
          /\ export'.pc = "done"
          /\ call'.reqs = export'.reqs
          /\ \A i \in DOMAIN export'.reqs : export'.reqs[i].resource # "file"
    /\ call.result \in ExportEnded => UNCHANGED <<export, call>>

\* a complete status is acted on only when it is seen within max_wait
CompleteSeenInTime ==
    (Checked /\ AnswerSeen.status = "complete") => AnswerSeen.answered <= export.args.max_wait

\* every progress check is issued within max_wait, and its answer is acted on
\* whenever it arrives
CheckIssuedInTime ==
    Checked =>
        /\ AnswerSeen.at <= export.args.max_wait
        /\ AnswerSeen.status = "complete" => export'.pc = "download"

\* C16 as stated: during export polling a progress check that reports failed
\* makes the operation fail with ExportFailed, and elapsed time exceeding
\* max_wait before a complete status is seen makes it fail with
\* ExportTimeout; after either there is no further progress check, no
\* download and no retry.
C16_TimeoutBeforeComplete == [][PollingRound /\ CompleteSeenInTime]_vars

\* C16, amended: a progress check that reports failed makes the operation
\* fail with ExportFailed; elapsed time found above max_wait at the start of
\* a polling round, before the progress check is issued, makes it fail with
\* ExportTimeout, while the answer to a check issued within max_wait is acted
\* on even when it arrives later; after either failure there is no further
\* progress check, no download and no retry.
C16_TimeoutAtRoundStart == [][PollingRound /\ CheckIssuedInTime]_vars

\* an export that timed out after progress checks that found it running
C16_Witness ==
    /\ ~IsMissing(export)
    /\ call.result = "ExportTimeout"
    /\ Len(export.reqs) >= 3
    /\ export.reqs[Len(export.reqs)].status = "inProgress"

-----------------------------------------------------------------------------
(* Two callers on one flow.                                                *)

\* c and d both read before the store took any write, c's write was taken
\* first and d's second
ReadThenOverwritten(c, d) ==
    /\ c # d
    /\ callers[c].pc = "done" /\ callers[d].pc = "done"
    /\ callers[c].after = 0 /\ callers[d].after = 0
    /\ callers[c].wrote = 1 /\ callers[d].wrote = 2

FlowList(f) == Get(f, "Flow", <<>>)

\* C17: when two callers run a read-modify-write on the same flow and both
\* reads come before either write, both report success, no error reaches
\* either, and the flow the store ends with is exactly the later writer's:
\* the flow the later call builds from what it read, without the earlier
\* writer's change.
C17_LastWriteWins ==
    ~IsMissing(callers) =>
        \A c, d \in Callers :
            ReadThenOverwritten(c, d) =>
                /\ callers[c].result.result = "ok"
                /\ callers[d].result.result = "ok"
                /\ flow = callers[d].result.sent[1]
                /\ flow = Handle(callers[d].op, callers[c].seen, callers[d].args, "none").remote
                /\ ( /\ callers[c].op = "set_embedded_data"
                     /\ callers[d].op = "set_embedded_data"
                     /\ callers[c].args.field_name # callers[d].args.field_name
                     /\ HeldNowhere(FlowList(callers[c].seen), callers[c].args.field_name) )
                   => HeldNowhere(FlowList(flow), callers[c].args.field_name)

\* two set_embedded_data calls with different field names, the first one's
\* field written and then lost
C17_Witness ==
    /\ ~IsMissing(callers)
    /\ ReadThenOverwritten("A", "B")
    /\ callers["A"].op = "set_embedded_data" /\ callers["B"].op = "set_embedded_data"
    /\ callers["A"].args.field_name = "a" /\ callers["B"].args.field_name = "b"
    /\ HeldNowhere(FlowList(callers["A"].seen), "a")
    /\ ~HeldNowhere(FlowList(callers["A"].result.sent[1]), "a")
    /\ HeldNowhere(FlowList(flow), "a")
    /\ ~HeldNowhere(FlowList(flow), "b")

-----------------------------------------------------------------------------
(* The fields of the fetched question in the record written.               *)

WritingLogicOps ==
    {"add_display_logic", "add_display_logic_multiple", "add_embedded_data_logic",
     "delete_display_logic"}

\* the keys whose values are strings; null is None for them and for the rest
TextKeys == {"QuestionText", "QuestionType", "Selector", "SubSelector"}

IsNull(r, k) == IF k \in TextKeys THEN r[k] = PyNone ELSE r[k] = None

\* the fields the fetched question holds with a value; QuestionID names the
\* record in the URL and is no field of the body
SetFields(q) == {k \in DOMAIN q \ {"DisplayLogic", "QuestionID"} : ~IsNull(q, k)}

\* C18: the record written by add_display_logic, add_display_logic_multiple,
\* add_embedded_data_logic and delete_display_logic holds, unchanged, every
\* field that was non-null in the fetched question, DisplayLogic excepted.
C18_SetFieldsKept ==
    (call.op \in WritingLogicOps /\ Wrote) =>
        \A k \in SetFields(call.before) : Holds(Body, k, call.before[k])

-----------------------------------------------------------------------------
(* The start group under an upsert at the end.                             *)

\* the fetched flow starts with an EmbeddedData group
StartsWithGroup(list) == Len(list) > 0 /\ list[1].Type = "EmbeddedData"

\* C19: an upsert with position=end of a flow whose element at index 0 is an
\* EmbeddedData group leaves that element, with its FlowID, at index 0.
C19_StartGroupStays ==
    (IsUpsert /\ call.args.position = "end" /\ StartsWithGroup(OldList)) =>
        /\ StartsWithGroup(NewList)
        /\ NewList[1].FlowID = OldList[1].FlowID

\* a second group was put before the EndSurvey, after the start group
C19_Witness ==
    /\ EndUpsertOk
    /\ StartsWithGroup(OldList)
    /\ Len(NewList) = Len(OldList) + 1
    /\ NewList[1] = OldList[1]
    /\ NewList[2].Type = "EmbeddedData"

-----------------------------------------------------------------------------
(* A request the store refuses.                                            *)

\* the call raised RemoteOperationFailed right after its n-th request, which
\* it issued once, and nothing was returned or stored
FailedAt(cur, r, n) ==
    /\ r.call.result = "RemoteOperationFailed"
    /\ r.call.ret = None
    /\ Len(r.call.reqs) = n
    /\ \A i, j \in DOMAIN r.call.reqs : i # j => r.call.reqs[i] # r.call.reqs[j]
    /\ r.remote = cur

\* the call's outcome had the store refused its read (http = "read") or its
\* write (http = "write"): where the refused request is issued, the call
\* fails there
RefusalHandled(op, cur, args, http) ==
    LET r == Handle(op, cur, args, http) IN
    /\ (http = "read" /\ Len(r.call.reqs) >= 1) => FailedAt(cur, r, 1)
    /\ (http = "write" /\ Len(r.call.reqs) >= 2) => FailedAt(cur, r, 2)

-----------------------------------------------------------------------------
(* The same upsert, twice.                                                 *)

\* c is an upsert that went through, at the start or at the end
UpsertOk(c) ==
    /\ c.op \in {"set_embedded_data", "set_embedded_data_fields"}
    /\ c.result = "ok"
    /\ c.args.position \in {"start", "end"}

\* C21: the embedded-data upsert is idempotent: the same upsert (single or
\* bulk, position start or end) applied a second time leaves the flow as the
\* first application left it; no further group, no duplicate field.
C21_UpsertIdempotent ==
    [][ (UpsertOk(call) /\ UpsertOk(call') /\ call'.op = call.op /\ call'.args = call.args)
          => flow' = flow ]_vars

-----------------------------------------------------------------------------
(* The start group and the upsert at the end.                              *)

\* C22: an upsert with position=end (single or bulk) adds no field to, and
\* updates no field in, the EmbeddedData group at index 0; when that group is
\* the element right before the end index, a new group is put after it.
C22_EndLeavesStartGroup ==
    (EndUpsertOk /\ StartsWithGroup(OldList)) =>
        /\ NewList[1] = OldList[1]
        /\ EndPosition(OldList) = 2 =>
              /\ Len(NewList) = Len(OldList) + 1
              /\ NewList[2].Type = "EmbeddedData"

-----------------------------------------------------------------------------
(* Field names within a group.                                             *)

Groups(list) == {i \in DOMAIN list : list[i].Type = "EmbeddedData"}

FieldNamesOf(group) ==
    LET fields == Get(group, "EmbeddedData", <<>>) IN [i \in DOMAIN fields |-> fields[i].Field]

\* no group of the list holds two fields of one name
NoDuplicateField(list) ==
    \A g \in Groups(list) : PairwiseDistinct(FieldNamesOf(list[g]))

IsPrefix(s, t) == Len(s) <= Len(t) /\ SubSeq(t, 1, Len(s)) = s

\* every group of the old list is in the new list, its fields' names in the
\* places they had, any new name after them
FieldsKeepPlace(old, new) ==
    \A g \in Groups(old) :
        \E h \in Groups(new) :
            /\ new[h].FlowID = old[g].FlowID
            /\ IsPrefix(FieldNamesOf(old[g]), FieldNamesOf(new[h]))

\* C23: from a flow in which no EmbeddedData group holds two fields of one
\* name, every upsert (single or bulk, start or end) and every delete leads
\* to such a flow again; an upsert of a name the group holds updates that
\* entry where it is and appends nothing.
C23_NamesUniqueInGroup ==
    [][ NoDuplicateField(FlowList(flow)) =>
          /\ NoDuplicateField(FlowList(flow'))
          /\ UpsertOk(call') => FieldsKeepPlace(FlowList(flow), FlowList(flow')) ]_vars

\* an upsert at the start of a name the start group held: the entry changed,
\* the group has as many fields as before
C23_Witness ==
    /\ IsCall("set_embedded_data") /\ Succeeded
    /\ call.args.position = "start"
    /\ StartsWithGroup(OldList)
    /\ FieldExists(OldList[1].EmbeddedData, call.args.field_name)
    /\ Len(NewList[1].EmbeddedData) = Len(OldList[1].EmbeddedData)
    /\ NewList[1] # OldList[1]

-----------------------------------------------------------------------------
(* Where randomize_blocks puts the randomizer.                             *)

GivenBlocks == {call.args.block_ids[i] : i \in DOMAIN call.args.block_ids}

\* a top-level Block whose ID is among the block ids given
ListedBlock(e) == e.Type = "Block" /\ e.ID \in GivenBlocks

ListedAt(list) == {i \in DOMAIN list : ListedBlock(list[i])}

\* the place of the randomizer: that of the first listed block, or the front
RandomizerPlace(list) ==
    IF ListedAt(list) = {} THEN 1
    ELSE CHOOSE i \in ListedAt(list) : \A k \in ListedAt(list) : i <= k

\* C24: randomize_blocks writes a flow that holds the new BlockRandomizer at
\* the position of the first top-level Block whose ID is listed, holds no
\* other listed top-level Block, and holds every other top-level element in
\* the order it had; with no listed Block at the top level the randomizer is
\* at position 0.
C24_RandomizerPlacement ==
    (IsCall("randomize_blocks") /\ Wrote) =>
        LET old == OldList
            new == Body.Flow
            p == RandomizerPlace(old)
        IN  /\ Len(new) = Len(old) - Cardinality(ListedAt(old)) + 1
            /\ new[p].Type = "BlockRandomizer"
            /\ [i \in DOMAIN new[p].Flow |-> new[p].Flow[i].ID] = call.args.block_ids
            /\ Without(new, p) = SelectSeq(old, LAMBDA e : ~ListedBlock(e))
            /\ Succeeded => NewList = new

\* of two listed blocks the first gave its place to the randomizer and the
\* second is gone
C24_Witness ==
    /\ IsCall("randomize_blocks") /\ Succeeded
    /\ Types(OldList) = <<"Block", "Block", "EndSurvey">>
    /\ ListedAt(OldList) = {1, 2}
    /\ Types(NewList) = <<"BlockRandomizer", "EndSurvey">>

-----------------------------------------------------------------------------
(* What a delete changes.                                                  *)

\* the groups of the list that hold a field of that name
HoldersOf(list, name) ==
    {g \in Groups(list) : \E i \in DOMAIN FieldNamesOf(list[g]) : FieldNamesOf(list[g])[i] = name}

FirstHolder(list, name) ==
    CHOOSE g \in HoldersOf(list, name) : \A h \in HoldersOf(list, name) : g <= h

\* C25: a delete_embedded_data(name) that succeeds takes the field of that
\* name out of the first EmbeddedData group, in flow order, that holds it;
\* the group stays where it is, empty or not, with its other fields; every
\* other element, a later group holding the name included, is as it was.
C25_DeleteFrame ==
    (IsCall("delete_embedded_data") /\ Succeeded) =>
        LET name == call.args.field_name
            t == FirstHolder(OldList, name)
        IN  /\ HoldersOf(OldList, name) # {}
            /\ Len(NewList) = Len(OldList)
            /\ \A i \in DOMAIN OldList : i # t => NewList[i] = OldList[i]
            /\ NewList[t] = [OldList[t] EXCEPT !.EmbeddedData =
                                SelectSeq(@, LAMBDA f : f.Field # name)]

\* the first group lost its only field and stayed; a later group holds the name
C25_Witness ==
    /\ IsCall("delete_embedded_data") /\ Succeeded
    /\ StartsWithGroup(OldList)
    /\ Len(OldList[1].EmbeddedData) = 1
    /\ NewList[1].Type = "EmbeddedData"
    /\ NewList[1].EmbeddedData = <<>>
    /\ HoldersOf(NewList, call.args.field_name) # {}

-----------------------------------------------------------------------------
(* skip_if and add_display_logic.                                          *)

\* the call add_display_logic(source, invert(op), locator, value) on the
\* question the skip_if call found, its requests answered 200
InvertedCall ==
    add_display_logic(call.before,
                      [call.args EXCEPT !.operator = InvertOperator(call.args.operator)],
                      "none").call

\* C26: skip_if(source, op, locator, value) writes exactly the record that
\* add_display_logic(source, invert(op), locator, value) writes, the operator
\* inverted when it has an inverse and as given otherwise, source, locator
\* and value as given; and it is refused where that call is refused.
C26_SkipIsInvertedDisplayLogic ==
    IsCall("skip_if") =>
        /\ Wrote => call.sent = InvertedCall.sent
        /\ call.reqs = <<>> => (InvertedCall.reqs = <<>> /\ InvertedCall.result = call.result)
        /\ Succeeded => question.DisplayLogic = InvertedCall.sent[1].DisplayLogic

\* skip_if with Selected and a locator wrote NotSelected with that locator
C26_Witness ==
    /\ SkippedOk(call)
    /\ call.args.operator = "Selected"
    /\ HasLocator(call.args.choice_locator)
    /\ WrittenOperator(call) = "NotSelected"
    /\ Body.DisplayLogic["0"]["0"].ChoiceLocator = call.args.choice_locator[1]

-----------------------------------------------------------------------------
(* The operand of a built condition.                                       *)

\* the operators that compare with an operand
OperandOperators == OPERATORS \ {"Empty", "NotEmpty", "Displayed", "NotDisplayed"}

\* the conditions of the record the call wrote
WrittenConditions ==
    IF call.op \in SingleConditionOps \cup {"add_display_logic_multiple"} /\ Wrote
    THEN {IfOf(Body)[k] : k \in ConditionKeys(IfOf(Body))}
    ELSE {}

\* C27: every condition built for an operator that requires an operand
\* carries exactly one of ChoiceLocator and RightOperand, never both and
\* never neither.
C27_ExactlyOneOperand ==
    \A c \in WrittenConditions :
        c.Operator \in OperandOperators =>
            ("ChoiceLocator" \in DOMAIN c) # ("RightOperand" \in DOMAIN c)

-----------------------------------------------------------------------------
(* Termination of the export.                                              *)

\* the call has ended with one of the outcomes given
EndedIn(outcomes) ==
    /\ ~IsMissing(export) /\ export.pc = "done"
    /\ call.op = "export_responses" /\ call.result \in outcomes

\* C28 as stated: export_responses always terminates: with every request
\* answered and the clock advancing between polls, for every max_wait and
\* every sequence of progress statuses the call eventually ends in exactly
\* one of returned export data, ExportTimeout, ExportFailed or
\* RemoteOperationFailed.
C28_EndsInFour ==
    <>EndedIn({"ok", "ExportTimeout", "ExportFailed", "RemoteOperationFailed"})

\* C28, amended: export_responses always terminates: with every request
\* answered and the clock advancing between polls, for every max_wait and
\* every sequence of progress statuses the call eventually ends in exactly
\* one of returned export data, ExportTimeout, ExportFailed,
\* RemoteOperationFailed or, for a format that is not supported, ValueError
\* before any request; it never polls forever.
C28_Terminates ==
    <>EndedIn({"ok", "ExportTimeout", "ExportFailed", "RemoteOperationFailed", "ValueError"})

\* an export that returned its data after a check that found it running
C28_Witness ==
    /\ EndedIn({"ok"})
    /\ Len(export.reqs) >= 4
    /\ export.reqs[2].status = "inProgress"

-----------------------------------------------------------------------------
(* Display logic under the other edits of a question.                      *)

EditOps ==
    {"add_page_break", "add_question_javascript", "add_auto_advance",
     "remove_question_javascript", "randomize_question_choices"}

\* the step is an edit that wrote a record for a question holding display logic
EditOfLogic ==
    /\ call'.op \in EditOps /\ Len(call'.sent) = 1
    /\ Present(question, "DisplayLogic")

\* C29: once display logic has been set on a question, every record written
\* for it afterwards by add_page_break, the JavaScript operations or
\* randomize_question_choices holds that display logic unchanged, until
\* delete_display_logic or another setter is called.
C29_EditsKeepLogic ==
    [][EditOfLogic => Holds(call'.sent[1], "DisplayLogic", question.DisplayLogic)]_vars

-----------------------------------------------------------------------------
(* The operands of a built condition.                                      *)

\* the text of a value a caller gives: the digits of a number, the
\* characters of a string
TextOf(value) ==
    IF value = [int |-> 0] THEN <<"0">>
    ELSE IF value = [int |-> 5] THEN <<"5">>
    ELSE value.str

\* the condition holds the value given as its RightOperand, or none when
\* no value was given
RightOperandIs(c, value) ==
    IF value = None THEN "RightOperand" \notin DOMAIN c
    ELSE Holds(c, "RightOperand", TextOf(value[1]))

\* the one condition of the record written
OnlyCondition == IfOf(Body)["0"]

\* C30: the LeftOperand of a built condition is the ChoiceLocator for a
\* Question condition with a choice locator, q://<source>/SelectableChoice
\* for a Question condition without one, and ed://<fieldName> for an
\* EmbeddedField condition; in the last two cases a value given appears as
\* RightOperand, as a string.
C30_LeftOperand ==
    /\ \A c \in WrittenConditions :
          /\ (c.LogicType = "Question" /\ "ChoiceLocator" \in DOMAIN c) =>
                c.LeftOperand = c.ChoiceLocator
          /\ (c.LogicType = "Question" /\ "ChoiceLocator" \notin DOMAIN c) =>
                c.LeftOperand = <<"q://", c.QuestionID, "/SelectableChoice">>
          /\ c.LogicType = "EmbeddedField" =>
                /\ Len(c.LeftOperand) = 2 /\ c.LeftOperand[1] = "ed://"
                /\ "ChoiceLocator" \notin DOMAIN c
    /\ (IsCall("add_display_logic") /\ Wrote) =>
          IF call.args.choice_locator \notin {None, Some(<<>>)}
          THEN /\ Holds(OnlyCondition, "ChoiceLocator", call.args.choice_locator[1])
               /\ OnlyCondition.LeftOperand = call.args.choice_locator[1]
          ELSE /\ OnlyCondition.LeftOperand =
                     <<"q://", call.args.source_question_id, "/SelectableChoice">>
               /\ RightOperandIs(OnlyCondition, call.args.value)
    /\ (IsCall("add_embedded_data_logic") /\ Wrote) =>
          /\ OnlyCondition.LeftOperand = <<"ed://", call.args.field_name>>
          /\ RightOperandIs(OnlyCondition, call.args.value)

\* a Question condition written with the value 0 and an empty locator
C30_Witness ==
    /\ IsCall("add_display_logic") /\ Wrote
    /\ call.args.choice_locator = Some(<<>>)
    /\ call.args.value = Some([int |-> 0])
    /\ Holds(OnlyCondition, "RightOperand", <<"0">>)

====
